---- MODULE Spec2Model ----
(***************************************************************************)
(* Zulu control-plane core: task-graph executor, hash-chained audit log,   *)
(* attestation authority and executor-adapter dispatch, as state machines  *)
(* translated from the Python sources.                                     *)
(*                                                                         *)
(*   Spec          TaskExecutor.execute on a task graph                    *)
(*   SpecChain     AuditChain append / restart / verify, log tampering     *)
(*   SpecAttest    AttestationAuthority issue_nonce / verify / revoke      *)
(*   SpecDispatch  ZuluOpenClawAdapter / ZuluMoltWorkerAdapter dispatch    *)
(*   SpecFair      Spec with the event loop's fairness                     *)
(*   SpecPlan      ZuluTaskPlanner.plan / TaskDecomposer.decompose         *)
(*   SpecCreds     issued_at of a dispatched request against the TTL       *)
(*   SpecPolicy    PolicyEngine.reload, the watchdog's POLICY_RELOADED     *)
(*   SpecGate      require_attestation against what is dispatched          *)
(*   SpecWatch     the watchdog loop: check, POLICY_VIOLATION, kill        *)
(*   SpecWatchFair SpecWatch with the loop's fairness                      *)
(*   SpecLog       BoundedAuditLog append / flush / flush callback         *)
(*   SpecLoop      the watchdog loop with its periodic policy reload       *)
(*   SpecSession   _get_session / close of one adapter, concurrent calls   *)
(*   SpecMerkle    AuditChain append with its Merkle windows, flush_merkle *)
(*   SpecVerify    AuditChain opened on an existing log, verify on it      *)
(*   SpecSandbox   handle_task of the sandbox worker, planner task types   *)
(***************************************************************************)
EXTENDS Integers, Sequences, FiniteSets, TLC

VARIABLES
    \* ---- task graph executor (zulu_task_planner.py) ----
    tasks,          \* task ids of the graph (TaskGraph.tasks)
    depends_on,     \* PlannedTask.depends_on, per task
    status,         \* PlannedTask.status, per task
    results,        \* results dict of execute(): task id -> result source
    errors,         \* errors dict of execute(): task id -> error text
    epc,            \* position of execute(): "loop", "gather", "done"
    ready_tasks,    \* the round's ready_tasks list (as a set)
    tpc,            \* position of each _execute_single_task coroutine
    rounds,         \* rounds of the main loop that dispatched tasks
    dispatched,     \* adapter.dispatch calls issued, per task
    \* ---- audit chain (hardening/audit_chain.py, cli/zulu_audit.py) ----
    file,           \* the JSONL log on disk: one record per line
    chain_prev_hash,\* AuditChain._prev_hash of the running process
    chain_seq,      \* AuditChain._seq of the running process
    appends,        \* append() calls made so far (also the clock of "ts")
    write_failed,   \* some append's disk write raised
    tamper,         \* the edit made to the log by hand, if any
    merkle_interval,\* AuditChain.merkle_interval
    window_hashes,  \* AuditChain._window_hashes
    merkle_file,    \* the sibling Merkle log on disk: one record per line
    emitted,        \* window records _emit_merkle_root built in this process
    hash_of_seq,    \* hashes of the records this process appended, by seq
    \* ---- attestation authority (hardening/attestation.py) ----
    now,            \* time.time()
    nonce_ttl,      \* AttestationAuthority.nonce_ttl
    issued,         \* AttestationAuthority._issued: nonce -> IssuedNonce
    next_nonce,     \* nonces generated so far (each token is fresh)
    att_last,       \* the last entry of _attestation_log
    last_verify,    \* the last verify() call: its nonce, its result, what held before it
                    \* and the number of log entries it appended
    ok_count,       \* per nonce: verify() calls that returned (True, "ok")
    ok_with,        \* per nonce: the worker and signature of its valid verify
    expiry_of,      \* per nonce: the expires_at it was issued with
    revoked,        \* per nonce: removed by revoke_worker
    \* ---- adapters (zulu_openclaw_adapter.py, zulu_moltworker_adapter.py) ----
    adapter,        \* which adapter class the object is
    max_retries,    \* self.max_retries
    audit_max_size, \* BoundedAuditLog: the deque's maxlen
    session,        \* self._session: "none" or "open"
    audit_entries,  \* BoundedAuditLog._entries
    overflow_count, \* BoundedAuditLog._overflow_count
    dpc,            \* where dispatch() stands: "idle", "sending", "backoff"
    attempt,        \* dispatch(): the loop variable
    attempt_events, \* what happened to each send attempt of this call
    waits,          \* the asyncio.sleep durations of this call
    outcome,        \* what the last dispatch() call gave its caller
    calls,          \* dispatch() calls made
    net_sends,      \* send attempts ever made (HTTP posts, WebSocket connects)
    req_age,        \* age of the credentials of the request of this call
    \* ---- planner front end (zulu_task_planner.py) ----
    ambiguity_threshold,   \* PlannerConfig.ambiguity_threshold, in tenths
    max_tasks_per_request, \* PlannerConfig.max_tasks_per_request
    plan_pc,        \* where plan_and_execute() stands
    intent,         \* the ParsedIntent of IntentParser.parse
    tasks_data,     \* what provider.complete_json gave decompose()
    planned_tasks,  \* the task list decompose() returned
    plan_result,    \* the PlannerResult of plan(): which of its forms
    decomp_requests,\* decomposition requests sent to the provider
    \* ---- credentials of a dispatch (zulu_task_planner.py, adapters) ----
    wall_clock,     \* datetime.now(), in ticks
    cred_ttl,       \* credential_max_age of the adapter's configuration, seconds
    exec_issued_at, \* issued_at of the executor's self.credentials
    cred_pc,        \* "idle", or "built" between request and the TTL check
    req_issued_at,  \* issued_at of the credentials of the request
    dispatch_at,    \* wall_clock when the request was built
    cred_outcome,   \* what the TTL check of the last dispatch() did
    cred_dispatches,\* requests built so far
    \* ---- policy engine (hardening/policy_engine.py, watchdog/monitor.py) ----
    policy_path,    \* PolicyEngine.policy_path: "set" or "none"
    policy_file,    \* bytes of the policy file on disk, or "absent"
    policy,         \* PolicyEngine.policy: the in-memory document
    policy_hash,    \* PolicyEngine.policy_hash: the cached fingerprint
    load_count,     \* PolicyEngine._load_count
    ppc,            \* reload(): "idle", or "read" between read_bytes and _load_yaml
    raw,            \* reload(): the bytes read_bytes returned
    policy_events,  \* policy_hash of the POLICY_RELOADED records appended
    reloads,        \* reload() calls made by the watchdog loop
    reload_outcome, \* how the last reload() call ended
    unchanged_run,  \* reload() calls in a row that found the fingerprint equal
    loaded_raw,     \* the bytes read by the last successful load
    \* ---- attestation gate (policy_engine.py, zulu_task_planner.py) ----
    require_attestation, \* per executor: the policy entry's require_attestation
    attestation,    \* per executor: outcome of its last verify() at the authority
    task_dispatches,\* per executor: requests dispatched to it
    gate_checked,   \* executors PolicyEngine.check has been run on
    gate_violations,\* executors with a kill-severity violation from check()
    \* ---- watchdog loop (watchdog/monitor.py, hardening/policy_engine.py) ----
    max_runtime_sec,   \* the policy entries' max_runtime_sec, in poll intervals
    kill_on_violation, \* global.kill_on_violation of the policy
    kill_action,    \* KILL_ACTION: "restart" or "stop"
    container_status, \* per container: "running", "exited" or "absent"
    elapsed,        \* per container: time it has been running, in poll intervals
    consecutive_high_cpu, \* per container: the loop's counter
    wpc,            \* index in MONITORED_CONTAINERS of the container handled next
    watch_outcome,  \* how the loop body ended for the container handled last
    tick_log,       \* records the loop body appended for that container
    \* ---- BoundedAuditLog (zulu_openclaw_adapter.py) ----
    log_max_size,   \* maxlen of the deque
    on_flush,       \* TRUE iff a flush callback is registered
    log_entries,    \* the deque, oldest first; entries are numbered as appended
    log_overflow,   \* _overflow_count
    log_appended,   \* number of append calls so far
    log_dropped,    \* entries the deque discarded since the last flush
    log_delivered,  \* entries handed to the callback, in order of delivery
    log_returned,   \* what the last flush returned
    log_last,       \* the last call: "none", "append" or "flush"
    \* ---- watchdog loop: periodic policy reload (monitor.py) ----
    policy_reload_every,  \* POLICY_RELOAD_EVERY, computed once at startup
    policy_check_counter, \* policy_check_counter
    loop_ticks,           \* passes of the while loop begun so far
    loop_file,            \* bytes of the policy file, or Absent
    loop_hash,            \* policy.policy_hash
    max_memory_mb,        \* max_memory_mb of the worker entries in force
    reload_attempted,     \* TRUE iff this tick called policy.reload()
    top_log,              \* records appended before the for loop of this tick
    \* ---- the loaded policy's view of the monitored containers ----
    has_worker_entry,     \* TRUE iff policy["workers"] has an entry for them
    kill_unknown_workers, \* policy["global"]["kill_unknown_workers"]
    \* ---- the adapter's client session (_get_session, close) ----
    sess_current,   \* self._session: 0 for None, else the number of the session
    sess_closed,    \* the sessions whose .closed is True
    sess_created,   \* ClientSession objects constructed so far
    lock_locked,    \* self._session_lock.locked()
    lock_waiters,   \* the lock's waiters, first come first
    cpc,            \* per caller: where its dispatch stands
    held,           \* per caller: the session _get_session returned to it
    scalls,         \* per caller: sends begun so far
    close_pc,       \* close(): "idle", "waiting" or "closing"
    closes,         \* close() calls begun so far
    \* ---- the constrained sandbox worker (openclaw_worker/server.py) ----
    sb_spec,        \* task_type of the TaskSpec being executed, or "none"
    sb_results      \* the answers handle_task has sent, oldest first

execVars == <<tasks, depends_on, status, results, errors, epc, ready_tasks,
              tpc, rounds, dispatched>>

merkleVars == <<merkle_interval, window_hashes, merkle_file, emitted,
                hash_of_seq>>
chainVars == <<file, chain_prev_hash, chain_seq, appends, write_failed, tamper,
               merkleVars>>

attVars == <<now, nonce_ttl, issued, next_nonce, att_last, last_verify,
             ok_count, ok_with, expiry_of, revoked>>

dispVars == <<adapter, max_retries, audit_max_size, session, audit_entries,
              overflow_count, dpc, attempt, attempt_events, waits, outcome,
              calls, net_sends, req_age>>

planVars == <<ambiguity_threshold, max_tasks_per_request, plan_pc, intent,
              tasks_data, planned_tasks, plan_result, decomp_requests>>

credVars == <<wall_clock, cred_ttl, exec_issued_at, cred_pc, req_issued_at,
              dispatch_at, cred_outcome, cred_dispatches>>

policyVars == <<policy_path, policy_file, policy, policy_hash, load_count, ppc,
                raw, policy_events, reloads, reload_outcome, unchanged_run,
                loaded_raw>>

gateVars == <<require_attestation, attestation, task_dispatches, gate_checked,
              gate_violations>>

watchVars == <<max_runtime_sec, kill_on_violation, kill_action,
               container_status, elapsed, consecutive_high_cpu, wpc,
               watch_outcome, tick_log>>

logVars == <<log_max_size, on_flush, log_entries, log_overflow, log_appended,
             log_dropped, log_delivered, log_returned, log_last>>

loopVars == <<policy_reload_every, policy_check_counter, loop_ticks, loop_file,
              loop_hash, max_memory_mb, reload_attempted, top_log>>

knownVars == <<has_worker_entry, kill_unknown_workers>>

sessVars == <<sess_current, sess_closed, sess_created, lock_locked,
              lock_waiters, cpc, held, scalls, close_pc, closes>>

sandboxVars == <<sb_spec, sb_results>>

vars == <<execVars, chainVars, attVars, dispVars, planVars, credVars,
          policyVars, gateVars, watchVars, logVars, loopVars, knownVars,
          sessVars, sandboxVars>>

\* what the task executor leaves alone
execOthers == <<chainVars, attVars, dispVars, planVars, credVars, policyVars,
                gateVars, watchVars, logVars, loopVars, knownVars, sessVars,
                sandboxVars>>
\* what the audit chain leaves alone
chainOthers == <<execVars, attVars, dispVars, planVars, credVars, policyVars,
                 gateVars, watchVars, logVars, loopVars, knownVars, sessVars,
                 sandboxVars>>
\* what the attestation authority leaves alone
attOthers == <<execVars, chainVars, dispVars, planVars, credVars, policyVars,
               gateVars, watchVars, logVars, loopVars, knownVars, sessVars,
               sandboxVars>>
\* what an adapter leaves alone
dispOthers == <<execVars, chainVars, attVars, planVars, credVars, policyVars,
                gateVars, watchVars, logVars, loopVars, knownVars, sessVars,
                sandboxVars>>
\* what the planner front end leaves alone
planOthers == <<execVars, chainVars, attVars, dispVars, credVars, policyVars,
                gateVars, watchVars, logVars, loopVars, knownVars, sessVars,
                sandboxVars>>
\* what the credential check leaves alone
credOthers == <<execVars, chainVars, attVars, dispVars, planVars, policyVars,
                gateVars, watchVars, logVars, loopVars, knownVars, sessVars,
                sandboxVars>>
\* what the policy engine leaves alone
policyOthers == <<execVars, chainVars, attVars, dispVars, planVars, credVars,
                  gateVars, watchVars, logVars, loopVars, knownVars,
                  sessVars, sandboxVars>>
\* what the attestation gate leaves alone
gateOthers == <<execVars, chainVars, attVars, dispVars, planVars, credVars,
                policyVars, watchVars, logVars, loopVars, knownVars,
                sessVars, sandboxVars>>
\* what the watchdog loop leaves alone
watchOthers == <<execVars, chainVars, attVars, dispVars, planVars, credVars,
                 policyVars, gateVars, logVars, loopVars, knownVars,
                 sessVars, sandboxVars>>
\* every variable outside the audit log
logOthers == <<execVars, chainVars, attVars, dispVars, planVars, credVars,
               policyVars, gateVars, watchVars, loopVars, knownVars,
               sessVars, sandboxVars>>
\* every variable outside the reload loop and the watchdog's passes
loopOthers == <<execVars, chainVars, attVars, dispVars, planVars, credVars,
                policyVars, gateVars, logVars, knownVars, sessVars,
                sandboxVars>>
\* every variable outside the sandbox worker
sandboxOthers == <<execVars, chainVars, attVars, dispVars, planVars,
                   credVars, policyVars, gateVars, watchVars, logVars,
                   loopVars, knownVars, sessVars>>
\* every variable outside the client session
sessOthers == <<execVars, chainVars, attVars, dispVars, planVars, credVars,
                policyVars, gateVars, watchVars, logVars, loopVars,
                knownVars, sandboxVars>>

(***************************************************************************)
(* Bounds                                                                  *)
(***************************************************************************)
MaxTasks == 3
MaxEdges == 2
\* dependency edges of the graphs whose termination is checked
MaxFairEdges == 1
MaxAppends == 3
MaxMerkleInterval == 3
MaxLogLen == 2
MaxNonces == 1
MaxTime == 2
MaxTtl == 1
MaxRetries == 3
MaxCalls == 3
MaxAuditSize == 3
MaxLogAppends == 5
MaxCallers == 2
MaxSends == 2
MaxCloses == 2
MaxWorkerTasks == 2
MaxTicks == 4
MaxInterval == 3
MaxClock == 8
MaxCredTtl == 2
MaxReloads == 3
MaxLimit == 2
MaxRuntime == 3
\* check(): the default of runtime_seconds
DefaultRuntimeSeconds == 0
\* monitor(): HIGH_CPU_THRESHOLD_CHECKS
HIGH_CPU_THRESHOLD_CHECKS == 3
\* wall-clock ticks in a second
TicksPerSecond == 2

(***************************************************************************)
(* Task graph executor                                                     *)
(***************************************************************************)
TaskIds == 1..MaxTasks
\* an id no task of the graph carries (a reference to a missing upstream)
MissingId == MaxTasks + 1
DepIds == TaskIds \cup {MissingId}

RECURSIVE SumOver(_, _)
SumOver(f, S) ==
    IF S = {} THEN 0
    ELSE LET x == CHOOSE y \in S : TRUE IN f[x] + SumOver(f, S \ {x})

EdgeCount(deps, T) == SumOver([t \in T |-> Cardinality(deps[t])], T)

\* TaskGraph.get_ready_tasks, with the dependency test dropped
GetReadyTasksIgnoringDeps == {t \in tasks : status[t] = "pending"}

\* TaskGraph.get_ready_tasks, with a failed upstream counted as done
GetReadyTasksAfterFailure ==
    LET done_ids == {t \in tasks : status[t] \in {"completed", "failed"}}
    IN {t \in tasks : status[t] = "pending"
                      /\ \A dep \in depends_on[t] : dep \in done_ids}

\* get_ready_tasks taking a failed task for one that has not been run yet
GetReadyTasksRetryingFailed ==
    LET completed_ids == {t \in tasks : status[t] = "completed"}
    IN {t \in tasks : status[t] \in {"pending", "failed"}
                      /\ \A dep \in depends_on[t] : dep \in completed_ids}

\* TaskGraph.get_ready_tasks
GetReadyTasks ==
    LET completed_ids == {t \in tasks : status[t] = "completed"}
    IN {t \in tasks : status[t] = "pending"
                      /\ \A dep \in depends_on[t] : dep \in completed_ids}

\* TaskGraph.is_complete
IsComplete == \A t \in tasks : status[t] \in {"completed", "failed"}

BlockedError == "Blocked: dependency failed or missing"

ExecInit ==
    /\ tasks \in {1..n : n \in 0..MaxTasks}
    /\ depends_on \in {d \in [TaskIds -> SUBSET DepIds] :
                          /\ \A t \in TaskIds \ tasks : d[t] = {}
                          /\ EdgeCount(d, TaskIds) <= MaxEdges}
    /\ status = [t \in TaskIds |-> "pending"]
    /\ results = [t \in TaskIds |-> "none"]
    /\ errors = [t \in TaskIds |-> "none"]
    /\ epc = "loop"
    /\ ready_tasks = {}
    /\ tpc = [t \in TaskIds |-> "idle"]
    /\ rounds = 0
    /\ dispatched = [t \in TaskIds |-> 0]

\* execute(): the while test succeeds at once: the graph is complete
ExecuteReturn ==
    /\ epc = "loop"
    /\ IsComplete
    /\ epc' = "done"
    /\ UNCHANGED execOthers
    /\ UNCHANGED <<tasks, depends_on, status, results, errors, ready_tasks,
                   tpc, rounds, dispatched>>

\* execute(): no task is ready: break, with the pending tasks left as they are
ExecuteBlockedWithoutMarking ==
    /\ epc = "loop"
    /\ ~IsComplete
    /\ GetReadyTasks = {}
    /\ epc' = "done"
    /\ UNCHANGED execOthers
    /\ UNCHANGED <<tasks, depends_on, status, errors, results, ready_tasks, tpc,
                   rounds, dispatched>>

\* execute(): no task is ready: the pending tasks are failed as blocked; break
ExecuteBlocked ==
    /\ epc = "loop"
    /\ ~IsComplete
    /\ GetReadyTasks = {}
    /\ status' = [t \in TaskIds |->
                    IF t \in tasks /\ status[t] = "pending" THEN "failed"
                    ELSE status[t]]
    /\ errors' = [t \in TaskIds |->
                    IF t \in tasks /\ status[t] = "pending" THEN BlockedError
                    ELSE errors[t]]
    /\ epc' = "done"
    /\ UNCHANGED execOthers
    /\ UNCHANGED <<tasks, depends_on, results, ready_tasks, tpc, rounds,
                   dispatched>>

\* execute(): a round starts: one _execute_single_task coroutine per ready
\* task (awaited directly when there is one, through asyncio.gather otherwise)
ExecuteRound ==
    /\ epc = "loop"
    /\ ~IsComplete
    /\ GetReadyTasks # {}
    /\ ready_tasks' = GetReadyTasks
    /\ tpc' = [t \in TaskIds |-> IF t \in GetReadyTasks THEN "scheduled" ELSE tpc[t]]
    /\ rounds' = rounds + 1
    /\ epc' = "gather"
    /\ UNCHANGED execOthers
    /\ UNCHANGED <<tasks, depends_on, status, results, errors, dispatched>>

\* the coroutines of a round take their first step in list order
NextToStart(t) ==
    /\ t \in ready_tasks
    /\ tpc[t] = "scheduled"
    /\ \A u \in ready_tasks : tpc[u] = "scheduled" => t <= u

\* a suspended coroutine resumes whenever its awaited call returns
CanResumeAtOnce(t) ==
    /\ epc = "gather"
    /\ t \in ready_tasks

\* a suspended coroutine resumes only after every coroutine of the round has
\* taken its first step (the event loop runs its ready queue in order)
CanResume(t) ==
    /\ epc = "gather"
    /\ t \in ready_tasks
    /\ \A u \in ready_tasks : tpc[u] # "scheduled"

\* _build_dependency_context suspends iff some upstream of the task has a
\* result: it then awaits the gather of the extractions
AwaitsContext(t) == \E dep \in depends_on[t] : dep \in TaskIds /\ results[dep] # "none"

\* _execute_single_task, its first step: status = "running"; when no upstream
\* has a result the request is built and adapter.dispatch(request) awaited at
\* once, else the dependency context is awaited first
StartTask(t) ==
    /\ epc = "gather"
    /\ NextToStart(t)
    /\ status' = [status EXCEPT ![t] = "running"]
    /\ tpc' = [tpc EXCEPT ![t] = IF AwaitsContext(t) THEN "context"
                                 ELSE "dispatching"]
    /\ dispatched' = [dispatched EXCEPT ![t] = IF AwaitsContext(t) THEN @ ELSE @ + 1]
    /\ UNCHANGED execOthers
    /\ UNCHANGED <<tasks, depends_on, results, errors, epc, ready_tasks, rounds>>

\* _execute_single_task: status = "running", then building the request raises
\* (OpenClawValidationError of OpenClawRequest) before anything is awaited
StartTaskRaises(t) ==
    /\ epc = "gather"
    /\ NextToStart(t)
    /\ ~AwaitsContext(t)
    /\ status' = [status EXCEPT ![t] = "failed"]
    /\ errors' = [errors EXCEPT ![t] = "validation"]
    /\ tpc' = [tpc EXCEPT ![t] = "finished"]
    /\ UNCHANGED execOthers
    /\ UNCHANGED <<tasks, depends_on, results, epc, ready_tasks, rounds,
                   dispatched>>

\* the dependency context is built: the request is built and
\* adapter.dispatch(request) is awaited
ContextBuilt(t) ==
    /\ CanResume(t)
    /\ tpc[t] = "context"
    /\ tpc' = [tpc EXCEPT ![t] = "dispatching"]
    /\ dispatched' = [dispatched EXCEPT ![t] = @ + 1]
    /\ UNCHANGED execOthers
    /\ UNCHANGED <<tasks, depends_on, status, results, errors, epc, ready_tasks,
                   rounds>>

\* the dependency context is built, then building the request raises
ContextBuiltRaises(t) ==
    /\ CanResume(t)
    /\ tpc[t] = "context"
    /\ status' = [status EXCEPT ![t] = "failed"]
    /\ errors' = [errors EXCEPT ![t] = "validation"]
    /\ tpc' = [tpc EXCEPT ![t] = "finished"]
    /\ UNCHANGED execOthers
    /\ UNCHANGED <<tasks, depends_on, results, epc, ready_tasks, rounds,
                   dispatched>>

\* dispatch returned a response with succeeded
DispatchSucceeded(t) ==
    /\ CanResume(t)
    /\ tpc[t] = "dispatching"
    /\ status' = [status EXCEPT ![t] = "completed"]
    /\ results' = [results EXCEPT ![t] = "openclaw"]
    /\ tpc' = [tpc EXCEPT ![t] = "finished"]
    /\ UNCHANGED execOthers
    /\ UNCHANGED <<tasks, depends_on, errors, epc, ready_tasks, rounds,
                   dispatched>>

\* dispatch returned a failed response, or raised, and the error text has no
\* connection marker: the task is failed with that error
DispatchFailed(t, err) ==
    /\ CanResume(t)
    /\ tpc[t] = "dispatching"
    /\ status' = [status EXCEPT ![t] = "failed"]
    /\ errors' = [errors EXCEPT ![t] = err]
    /\ tpc' = [tpc EXCEPT ![t] = "finished"]
    /\ UNCHANGED execOthers
    /\ UNCHANGED <<tasks, depends_on, results, epc, ready_tasks, rounds,
                   dispatched>>

\* where the executor looks for a connection marker: the error of a failed
\* response that dispatch returned (the backend's own TaskResult, relayed by
\* the adapter), or the text of an exception that dispatch raised
MarkerSources == {"response", "exception"}

\* dispatch returned a failed response, or raised, with a connection marker
\* ("Cannot connect", "getaddrinfo", "Connection refused") in the error text:
\* _execute_via_llm is awaited; the two cases are handled alike, nothing
\* is kept of which one it was
DispatchUnavailable(t, marker_in) ==
    /\ CanResume(t)
    /\ tpc[t] = "dispatching"
    /\ tpc' = [tpc EXCEPT ![t] = "llm"]
    /\ UNCHANGED execOthers
    /\ UNCHANGED <<tasks, depends_on, status, results, errors, epc,
                   ready_tasks, rounds, dispatched>>

\* _execute_via_llm: the provider answered, and the answer is stored on the
\* task only
LlmCompletedOnTaskOnly(t) ==
    /\ CanResume(t)
    /\ tpc[t] = "llm"
    /\ status' = [status EXCEPT ![t] = "completed"]
    /\ tpc' = [tpc EXCEPT ![t] = "finished"]
    /\ UNCHANGED execOthers
    /\ UNCHANGED <<tasks, depends_on, results, errors, epc, ready_tasks, rounds,
                   dispatched>>

\* _execute_via_llm: the provider answered
LlmCompleted(t) ==
    /\ CanResume(t)
    /\ tpc[t] = "llm"
    /\ status' = [status EXCEPT ![t] = "completed"]
    /\ results' = [results EXCEPT ![t] = "direct_llm"]
    /\ tpc' = [tpc EXCEPT ![t] = "finished"]
    /\ UNCHANGED execOthers
    /\ UNCHANGED <<tasks, depends_on, errors, epc, ready_tasks, rounds,
                   dispatched>>

\* _execute_via_llm: the provider raised
LlmFailed(t) ==
    /\ CanResume(t)
    /\ tpc[t] = "llm"
    /\ status' = [status EXCEPT ![t] = "failed"]
    /\ errors' = [errors EXCEPT ![t] = "LLM fallback failed"]
    /\ tpc' = [tpc EXCEPT ![t] = "finished"]
    /\ UNCHANGED execOthers
    /\ UNCHANGED <<tasks, depends_on, results, epc, ready_tasks, rounds,
                   dispatched>>

\* execute(): every coroutine of the round has returned; back to the while test
RoundDone ==
    /\ epc = "gather"
    /\ \A t \in ready_tasks : tpc[t] = "finished"
    /\ epc' = "loop"
    /\ UNCHANGED execOthers
    /\ UNCHANGED <<tasks, depends_on, status, results, errors, ready_tasks,
                   tpc, rounds, dispatched>>

\* execute(): the fields of the ExecutionResult built at the return
ResultsKeys == {t \in TaskIds : results[t] # "none"}
ErrorsKeys == {t \in TaskIds : errors[t] # "none"}
tasks_completed == Cardinality({t \in tasks : status[t] = "completed"})
tasks_failed == Cardinality({t \in tasks : status[t] = "failed"})
success == tasks_failed = 0 /\ tasks_completed > 0

DispatchErrors == {"backend error", "dispatch raised"}

ExecNext ==
    \/ ExecuteReturn
    \/ ExecuteBlocked
    \/ ExecuteRound
    \/ RoundDone
    \/ \E t \in TaskIds : StartTask(t)
    \/ \E t \in TaskIds : StartTaskRaises(t)
    \/ \E t \in TaskIds : ContextBuilt(t)
    \/ \E t \in TaskIds : ContextBuiltRaises(t)
    \/ \E t \in TaskIds : DispatchSucceeded(t)
    \/ \E t \in TaskIds, err \in DispatchErrors : DispatchFailed(t, err)
    \/ \E t \in TaskIds, marker_in \in MarkerSources :
          DispatchUnavailable(t, marker_in)
    \/ \E t \in TaskIds : LlmCompleted(t)
    \/ \E t \in TaskIds : LlmFailed(t)


(***************************************************************************)
(* Audit chain                                                             *)
(***************************************************************************)
\* JSON objects are functions from keys to values
EmptyObj == [k \in {} |-> 0]
Put(obj, key, val) == [k \in DOMAIN obj \cup {key} |-> IF k = key THEN val ELSE obj[k]]
Pop(obj, key) == [k \in DOMAIN obj \ {key} |-> obj[k]]
Get(obj, key, default) == IF key \in DOMAIN obj THEN obj[key] ELSE default
\* {**a, **b}
Merge(a, b) == [k \in DOMAIN a \cup DOMAIN b |-> IF k \in DOMAIN b THEN b[k] ELSE a[k]]

\* _hash: a collision-free digest, the digest of x being <<x>>
Hash(x) == <<x>>
\* the value of record.pop("hash", None) when the key is absent
NoHash == <<>>
HASH_ALGO == "blake3"
GENESIS_HASH == Hash([bytes |-> "ZULU_AUDIT_GENESIS_v1"])

\* hash_record
hash_record(record, prev_hash) == Hash(Put(record, "prev_hash", prev_hash))

\* merkle_root with the odd node left out instead of paired with itself
RECURSIVE merkle_root_unpaired(_)
merkle_root_unpaired(hashes) ==
    IF Len(hashes) = 0 THEN Hash([bytes |-> "EMPTY_MERKLE"])
    ELSE IF Len(hashes) = 1 THEN hashes[1]
    ELSE merkle_root_unpaired(
             [i \in 1..(Len(hashes) \div 2) |->
                 Hash([left |-> hashes[2 * i - 1], right |-> hashes[2 * i]])])

\* merkle_root: one level of the tree per pass, the odd node paired with
\* itself
RECURSIVE merkle_root(_)
merkle_root(hashes) ==
    IF Len(hashes) = 0 THEN Hash([bytes |-> "EMPTY_MERKLE"])
    ELSE IF Len(hashes) = 1 THEN hashes[1]
    ELSE merkle_root(
             [i \in 1..((Len(hashes) + 1) \div 2) |->
                 Hash([left |-> hashes[2 * i - 1],
                       right |-> IF 2 * i <= Len(hashes) THEN hashes[2 * i]
                                 ELSE hashes[2 * i - 1]])])

\* _emit_merkle_root: the window record
WindowRecord(window, seq, ts) ==
    [ts |-> ts, type |-> "merkle_root", event_count |-> Len(window),
     first_seq |-> seq - Len(window), last_seq |-> seq - 1,
     merkle_root |-> merkle_root(window), algo |-> HASH_ALGO]

\* the watchdog's AuditChain(AUDIT_LOG_PATH, merkle_interval=360)
WatchdogMerkleInterval == 360

\* a line json.loads rejects: what a write cut short leaves behind
MalformedLine == [malformed |-> "{\"ts\": "]
\* json.loads(line) raises JSONDecodeError
IsMalformed(line) == "malformed" \in DOMAIN line

NoSeq == 0 - 1
VerifyResult(valid, broken_at) == [valid |-> valid, broken_at |-> broken_at]

\* AuditChain.verify, the loop from line i on (line_num is i - 1)
RECURSIVE VerifyFrom(_, _, _)
VerifyFrom(log, i, prev_hash) ==
    IF i > Len(log) THEN VerifyResult(TRUE, NoSeq)
    ELSE IF IsMalformed(log[i]) THEN VerifyResult(FALSE, i - 1)
    ELSE LET line == log[i]
             stored_hash == Get(line, "hash", NoHash)
             stored_prev == Get(line, "prev_hash", NoHash)
             record == Pop(Pop(Pop(line, "hash"), "prev_hash"), "algo")
         IN IF stored_prev # prev_hash
               THEN VerifyResult(FALSE, Get(record, "seq", i - 1))
            ELSE IF stored_hash # hash_record(record, prev_hash)
               THEN VerifyResult(FALSE, Get(record, "seq", i - 1))
            ELSE VerifyFrom(log, i + 1, stored_hash)

\* AuditChain.verify
Verify(log) == VerifyFrom(log, 1, GENESIS_HASH)

\* the record append() builds, details spread after the chain's own keys
NewRecord(event, details) ==
    Merge([ts |-> appends, seq |-> chain_seq, event |-> event], details)

\* the record append() writes: prev_hash, hash and algo attached
SealedRecord(event, details) ==
    LET record == NewRecord(event, details)
        record_hash == hash_record(record, chain_prev_hash)
    IN Put(Put(Put(record, "prev_hash", chain_prev_hash), "hash", record_hash),
           "algo", HASH_ALGO)

\* events and detail maps appended: the module's usage examples and the
\* watchdog's calls
AppendInputs ==
    { <<"WATCHDOG_STARTED", EmptyObj>>,
      <<"WORKER_KILLED", [container |-> "clawd-runner"]>>,
      <<"POLICY_LOADED", [hash |-> Hash([bytes |-> "policy.yaml"])]>> }

NoTamper == [line |-> 0, field |-> "none", seq |-> NoSeq, intact |-> TRUE]

\* AuditChain.__init__ on a path where no log exists yet
ChainStart ==
    /\ file = <<>>
    /\ chain_prev_hash = GENESIS_HASH
    /\ chain_seq = 0
    /\ appends = 0
    /\ write_failed = FALSE
    /\ tamper = NoTamper
    /\ window_hashes = <<>>
    /\ merkle_file = <<>>
    /\ emitted = <<>>
    /\ hash_of_seq = EmptyObj

ChainInit ==
    /\ ChainStart
    /\ merkle_interval = WatchdogMerkleInterval

\* _emit_merkle_root on a window that is not empty; merkle_ok: the write
\* of the window record to the sibling file succeeded
EmitMerkleRoot(window, seq, ts, merkle_ok) ==
    LET window_record == WindowRecord(window, seq, ts)
    IN /\ emitted' = Append(emitted, window_record)
       /\ merkle_file' = IF merkle_ok THEN Append(merkle_file, window_record)
                         ELSE merkle_file
       /\ window_hashes' = <<>>

\* AuditChain.append; write_ok: the open/write of the log line succeeded
ChainAppend(event, details, write_ok, merkle_ok) ==
    /\ tamper = NoTamper
    /\ appends < MaxAppends
    /\ LET sealed == SealedRecord(event, details)
           window == Append(window_hashes, sealed["hash"])
       IN /\ file' = IF write_ok THEN Append(file, sealed) ELSE file
          /\ chain_prev_hash' = sealed["hash"]
          /\ hash_of_seq' = Put(hash_of_seq, chain_seq, sealed["hash"])
          /\ IF Len(window) >= merkle_interval
                THEN EmitMerkleRoot(window, chain_seq + 1, appends + 1, merkle_ok)
                ELSE /\ merkle_ok
                     /\ window_hashes' = window
                     /\ UNCHANGED <<emitted, merkle_file>>
    /\ chain_seq' = chain_seq + 1
    /\ appends' = appends + 1
    /\ write_failed' = (write_failed \/ ~write_ok)
    /\ UNCHANGED <<tamper, merkle_interval>>
    /\ UNCHANGED chainOthers

\* flush_merkle: a window record for whatever the window holds; nothing
\* when it is empty
FlushMerkle(merkle_ok) ==
    /\ tamper = NoTamper
    /\ window_hashes # <<>>
    /\ EmitMerkleRoot(window_hashes, chain_seq, appends, merkle_ok)
    /\ UNCHANGED <<file, chain_prev_hash, chain_seq, appends, write_failed,
                   tamper, merkle_interval, hash_of_seq>>
    /\ UNCHANGED chainOthers

\* a process restart: AuditChain.__init__ and _resume on the existing log
ChainRestart ==
    /\ tamper = NoTamper
    /\ IF Len(file) = 0 \/ IsMalformed(file[Len(file)])
          THEN /\ chain_prev_hash' = GENESIS_HASH
               /\ chain_seq' = 0
          ELSE LET record == file[Len(file)]
               IN /\ chain_prev_hash' = Get(record, "hash", GENESIS_HASH)
                  /\ chain_seq' = Get(record, "seq", 0) + 1
    /\ window_hashes' = <<>>
    /\ emitted' = <<>>
    /\ hash_of_seq' = EmptyObj
    /\ UNCHANGED <<file, appends, write_failed, tamper, merkle_interval,
                   merkle_file>>
    /\ UNCHANGED chainOthers

TamperedHash == Hash([bytes |-> "tampered"])

\* the values a hand edit may give a field (of the field's JSON type)
TamperValues(key) ==
    CASE key = "seq" -> 0..(MaxAppends + 1)
      [] key = "ts" -> {0 - 1}
      [] key = "event" -> {"TAMPERED_BY_DEMO"}
      [] key = "container" -> {"tampered"}
      [] key = "algo" -> {"sha256"}
      [] key \in {"hash", "prev_hash"} -> {TamperedHash, GENESIS_HASH}

Tampered(i, key) ==
    [line |-> i, field |-> key, seq |-> file[i]["seq"], intact |-> Verify(file).valid]

\* a hand edit of one field of one record of the log
TamperField(i, key, val) ==
    /\ tamper = NoTamper
    /\ i \in 1..Len(file)
    /\ key \in DOMAIN file[i]
    /\ val \in TamperValues(key)
    /\ val # file[i][key]
    /\ file' = [file EXCEPT ![i] = Put(@, key, val)]
    /\ tamper' = Tampered(i, key)
    /\ UNCHANGED <<chain_prev_hash, chain_seq, appends, write_failed>>
    /\ UNCHANGED merkleVars
    /\ UNCHANGED chainOthers

\* cmd_demo_violation: the event of the middle line is rewritten
DemoViolation ==
    /\ tamper = NoTamper
    /\ Len(file) >= 2
    /\ LET mid == Len(file) \div 2
       IN /\ file' = [file EXCEPT ![mid + 1] = Put(@, "event", "TAMPERED_BY_DEMO")]
          /\ tamper' = Tampered(mid + 1, "event")
    /\ UNCHANGED <<chain_prev_hash, chain_seq, appends, write_failed>>
    /\ UNCHANGED merkleVars
    /\ UNCHANGED chainOthers

RecordKeys == {"ts", "seq", "event", "container", "prev_hash", "hash", "algo"}

ChainNext ==
    \/ \E inp \in AppendInputs, write_ok \in BOOLEAN :
          ChainAppend(inp[1], inp[2], write_ok, TRUE)
    \/ ChainRestart
    \/ \E i \in 1..MaxAppends, key \in RecordKeys :
          \E val \in TamperValues(key) : TamperField(i, key, val)
    \/ DemoViolation


\* a log of well-formed records carrying the sequence numbers seqs, each
\* hashed and linked to the one before it as append() would
RECURSIVE LinkedLog(_)
LinkedLog(seqs) ==
    IF seqs = <<>> THEN <<>>
    ELSE LET before == LinkedLog(SubSeq(seqs, 1, Len(seqs) - 1))
             prev_hash == IF before = <<>> THEN GENESIS_HASH
                          ELSE before[Len(before)]["hash"]
             record == [ts |-> 0 - Len(seqs), seq |-> seqs[Len(seqs)],
                        event |-> "WATCHDOG_STARTED"]
         IN Append(before,
                   Put(Put(Put(record, "prev_hash", prev_hash),
                           "hash", hash_record(record, prev_hash)),
                       "algo", HASH_ALGO))

\* the logs an AuditChain may be opened on: up to MaxLogLen linked records
\* with any sequence numbers
LinkedLogs ==
    {LinkedLog(seqs) : seqs \in UNION {[1..n -> 0..MaxLogLen] : n \in 0..MaxLogLen}}

\* AuditChain(log_path) opened on an existing log, then appends and restarts
OpenedOnLog ==
    /\ file \in LinkedLogs
    /\ chain_prev_hash = IF file = <<>> THEN GENESIS_HASH
                         ELSE Get(file[Len(file)], "hash", GENESIS_HASH)
    /\ chain_seq = IF file = <<>> THEN 0 ELSE Get(file[Len(file)], "seq", 0) + 1
    /\ appends = 0
    /\ write_failed = FALSE
    /\ tamper = NoTamper
    /\ merkle_interval = WatchdogMerkleInterval
    /\ window_hashes = <<>>
    /\ merkle_file = <<>>
    /\ emitted = <<>>
    /\ hash_of_seq = EmptyObj

\* the write of append() is cut short (the process is stopped, or the disk
\* fills, in the middle of the line): a partial line ends the log
TornWrite ==
    /\ tamper = NoTamper
    /\ \A i \in 1..Len(file) : ~IsMalformed(file[i])
    /\ file' = Append(file, MalformedLine)
    /\ UNCHANGED <<chain_prev_hash, chain_seq, appends, write_failed, tamper>>
    /\ UNCHANGED merkleVars
    /\ UNCHANGED chainOthers

VerifyNext ==
    \/ \E inp \in AppendInputs : ChainAppend(inp[1], inp[2], TRUE, TRUE)
    \/ ChainRestart
    \/ TornWrite

\* the events appended while the Merkle windows are followed
MerkleInputs ==
    { <<"WATCHDOG_STARTED", EmptyObj>>,
      <<"WORKER_KILLED", [container |-> "clawd-runner"]>> }

\* the chain with its Merkle windows: appends, forced flushes, restarts
MerkleNext ==
    \/ \E inp \in MerkleInputs, write_ok, merkle_ok \in BOOLEAN :
          ChainAppend(inp[1], inp[2], write_ok, merkle_ok)
    \/ \E merkle_ok \in BOOLEAN : FlushMerkle(merkle_ok)
    \/ ChainRestart

(***************************************************************************)
(* Attestation authority                                                   *)
(***************************************************************************)
\* AttestationAuthority.known_workers
known_workers ==
    [w \in {"clawd-runner", "openclaw-nightshift"} |->
        IF w = "clawd-runner" THEN "secret-for-clawd" ELSE "secret-for-openclaw"]
\* worker names callers may present, known or not
WorkerNames == DOMAIN known_workers \cup {"rogue"}
Nonces == 1..MaxNonces

\* _compute_signature: the digest of nonce + secret
compute_signature(nonce, secret) == <<nonce, secret>>
BadSignature == <<0, "forged">>
Signatures(nonce) ==
    {compute_signature(nonce, known_workers[w]) : w \in DOMAIN known_workers}
        \cup {BadSignature}

\* verify(): the checks in the order of the code, the used test before the
\* expiry test
VerifyReasonUsedFirst(worker_id, nonce, signature, t) ==
    IF nonce \notin DOMAIN issued THEN "nonce_not_found"
    ELSE IF issued[nonce].worker_id # worker_id THEN "nonce_worker_mismatch"
    ELSE IF issued[nonce].used THEN "nonce_already_used"
    ELSE IF t > issued[nonce].expires_at THEN "nonce_expired"
    ELSE IF signature # compute_signature(nonce, Get(known_workers, worker_id, ""))
        THEN "signature_mismatch"
    ELSE "ok"

\* verify() with the signature compared before the used flag is read
VerifyReasonSignatureFirst(worker_id, nonce, signature, t) ==
    IF nonce \notin DOMAIN issued THEN "nonce_not_found"
    ELSE IF issued[nonce].worker_id # worker_id THEN "nonce_worker_mismatch"
    ELSE IF t > issued[nonce].expires_at THEN "nonce_expired"
    ELSE IF signature # compute_signature(nonce, Get(known_workers, worker_id, ""))
        THEN "signature_mismatch"
    ELSE IF issued[nonce].used THEN "nonce_already_used"
    ELSE "ok"

\* verify(): the reason it returns at time t
VerifyReason(worker_id, nonce, signature, t) ==
    IF nonce \notin DOMAIN issued THEN "nonce_not_found"
    ELSE IF issued[nonce].worker_id # worker_id THEN "nonce_worker_mismatch"
    ELSE IF t > issued[nonce].expires_at THEN "nonce_expired"
    ELSE IF issued[nonce].used THEN "nonce_already_used"
    ELSE IF signature # compute_signature(nonce, Get(known_workers, worker_id, ""))
        THEN "signature_mismatch"
    ELSE "ok"

\* verify() on success, with the used flag left as it was
MarkUsedForgotten(entry) == entry

\* verify() on success: issued.used = True
MarkUsed(entry) == [entry EXCEPT !.used = TRUE]

\* _cleanup_expired at time t
CleanupExpired(table, t) ==
    [n \in {m \in DOMAIN table : ~(t > table[m].expires_at)} |-> table[n]]

\* _log_event: the entry kept, its worker reduced to whether it is a known one
LogEntry(event, worker_id, reason) ==
    [event |-> event, known |-> (worker_id \in DOMAIN known_workers),
     reason |-> reason]

NoVerify == [nonce |-> 0, valid |-> FALSE, reason |-> "none", late |-> FALSE,
             was_used |-> FALSE, repeat |-> FALSE, after_revoke |-> FALSE,
             logged |-> 0]

AttInit ==
    /\ now = 0
    /\ nonce_ttl \in 0..MaxTtl
    /\ issued = EmptyObj
    /\ next_nonce = 0
    /\ att_last = LogEntry("none", "none", "none")
    /\ last_verify = NoVerify
    /\ ok_count = [n \in Nonces |-> 0]
    /\ ok_with = [n \in Nonces |-> <<>>]
    /\ expiry_of = [n \in Nonces |-> 0 - 1]
    /\ revoked = [n \in Nonces |-> FALSE]

\* time passes
AttTick ==
    /\ now < MaxTime
    /\ now' = now + 1
    /\ UNCHANGED <<nonce_ttl, issued, next_nonce, att_last, last_verify,
                   ok_count, ok_with, expiry_of, revoked>>
    /\ UNCHANGED attOthers

\* issue_nonce for a known worker
IssueNonce(worker_id) ==
    /\ worker_id \in DOMAIN known_workers
    /\ next_nonce < MaxNonces
    /\ LET nonce == next_nonce + 1
       IN /\ issued' = Put(issued, nonce,
                           [worker_id |-> worker_id,
                            expires_at |-> now + nonce_ttl,
                            used |-> FALSE])
          /\ expiry_of' = [expiry_of EXCEPT ![nonce] = now + nonce_ttl]
          /\ next_nonce' = nonce
    /\ att_last' = LogEntry("NONCE_ISSUED", worker_id, "none")
    /\ UNCHANGED <<now, nonce_ttl, last_verify, ok_count, ok_with, revoked>>
    /\ UNCHANGED attOthers

\* issue_nonce for an unrecognised worker: denied
IssueNonceDenied(worker_id) ==
    /\ worker_id \notin DOMAIN known_workers
    /\ att_last' = LogEntry("NONCE_DENIED", worker_id, "unknown_worker")
    /\ UNCHANGED <<now, nonce_ttl, issued, next_nonce, last_verify, ok_count,
                   ok_with, expiry_of, revoked>>
    /\ UNCHANGED attOthers

\* verify(worker_id, nonce, signature); t2 is the time _cleanup_expired reads
AttVerify(worker_id, nonce, signature, t2) ==
    /\ t2 \in {now, now + 1}
    /\ LET reason == VerifyReason(worker_id, nonce, signature, now)
       IN /\ last_verify' =
                [nonce |-> nonce,
                 valid |-> (reason = "ok"),
                 reason |-> reason,
                 late |-> (expiry_of[nonce] >= 0 /\ now > expiry_of[nonce]),
                 was_used |-> (nonce \in DOMAIN issued /\ issued[nonce].used),
                 repeat |-> (ok_with[nonce] = <<worker_id, signature>>),
                 after_revoke |-> revoked[nonce],
                 logged |-> 1]
          /\ att_last' = IF reason = "ok"
                           THEN LogEntry("ATTESTATION_OK", worker_id, "none")
                           ELSE LogEntry("ATTESTATION_FAILED", worker_id, reason)
          /\ issued' =
                CASE reason = "nonce_expired" -> Pop(issued, nonce)
                  [] reason = "ok" ->
                        CleanupExpired([issued EXCEPT ![nonce] = MarkUsed(@)], t2)
                  [] OTHER -> issued
          /\ now' = IF reason = "ok" THEN t2 ELSE now
          /\ reason # "ok" => t2 = now
          /\ ok_count' = IF reason = "ok"
                            THEN [ok_count EXCEPT ![nonce] = IF @ < 2 THEN @ + 1 ELSE @]
                            ELSE ok_count
          /\ ok_with' = IF reason = "ok"
                           THEN [ok_with EXCEPT ![nonce] = <<worker_id, signature>>]
                           ELSE ok_with
    /\ UNCHANGED <<nonce_ttl, next_nonce, expiry_of, revoked>>
    /\ UNCHANGED attOthers

\* revoke_worker
RevokeWorker(worker_id) ==
    /\ LET gone == {n \in DOMAIN issued : issued[n].worker_id = worker_id}
       IN /\ issued' = [n \in DOMAIN issued \ gone |-> issued[n]]
          /\ revoked' = [n \in Nonces |-> revoked[n] \/ n \in gone]
          /\ att_last' = IF gone # {}
                           THEN LogEntry("WORKER_REVOKED", worker_id, "none")
                           ELSE att_last
    /\ UNCHANGED <<now, nonce_ttl, next_nonce, last_verify, ok_count, ok_with,
                   expiry_of>>
    /\ UNCHANGED attOthers

AttNext ==
    \/ AttTick
    \/ \E w \in WorkerNames : IssueNonce(w)
    \/ \E w \in WorkerNames : IssueNonceDenied(w)
    \/ \E w \in WorkerNames, n \in Nonces :
          \E sig \in Signatures(n), t2 \in 0..MaxTime : AttVerify(w, n, sig, t2)
    \/ \E w \in WorkerNames : RevokeWorker(w)


(***************************************************************************)
(* Adapters: dispatch with retry                                           *)
(***************************************************************************)
Adapters == {"openclaw", "moltworker"}

\* AdapterConfig.credential_max_age, MoltWorkerConfig.credential_max_age
credential_max_age == 3600
\* issued_at that does not parse
InvalidIssuedAt == 0 - 1
\* credential ages a request may carry
Ages == {0, credential_max_age, credential_max_age + 1, InvalidIssuedAt}

\* is_expired with the TTL test left out
is_expired_never(age, max_age_seconds) == FALSE

\* ScopedCredentials.is_expired
is_expired(age, max_age_seconds) ==
    IF age = InvalidIssuedAt THEN TRUE ELSE age > max_age_seconds

\* the constructor's max_retries argument left out
NoArg == 0 - 1
\* self.max_retries from the constructor argument and the configuration
MaxRetriesOf(ad, arg, configured) ==
    IF ad = "openclaw"
        THEN IF arg = NoArg \/ arg = 0 THEN configured ELSE arg
        ELSE IF arg # NoArg THEN arg ELSE configured

\* retry_backoff_base of the adapter's configuration, in seconds
retry_backoff_base(ad) == IF ad = "openclaw" THEN 1 ELSE 2

RECURSIVE Pow2(_)
Pow2(n) == IF n <= 0 THEN 1 ELSE 2 * Pow2(n - 1)

\* dispatch(): backoff = retry_backoff_base * (2 ** (attempt - 1))
Backoff(ad, k) == retry_backoff_base(ad) * Pow2(k - 1)

Response(st) == [raised |-> "none", status |-> st]
Raised(exc) == [raised |-> exc, status |-> "none"]

\* handle_task: the HTTP status code the worker answers a TaskResult with
WorkerStatusCode(result_status) ==
    IF result_status = "timeout" THEN 408
    ELSE IF result_status = "completed" THEN 200 ELSE 500

\* resp.raise_for_status(): ClientResponseError on a 4xx or 5xx answer
raise_for_status(code) == code >= 400

\* _send_request on the answer of handle_task for a TaskResult
WorkerAnswer(result_status) ==
    IF raise_for_status(WorkerStatusCode(result_status))
        THEN Raised("ClientError")
        ELSE Response(result_status)

\* what can happen to one send of the adapter ("worker_error": the worker
\* ran the task and answered with a TaskResult of status error, a result of
\* status timeout being raised by _send_request in the same way;
\* "backend_error": a body of status error delivered with a 2xx code)
SendEvents(ad) ==
    IF ad = "openclaw"
        THEN {"completed", "backend_error", "rejected", "connect_error", "timeout",
              "worker_error"}
        ELSE {"completed", "backend_error", "connect_error", "handshake_error",
              "timeout"}

\* _send_request / _execute_via_websocket: what the send gives dispatch()
SendResult(ad, event) ==
    IF ad = "openclaw"
        THEN CASE event = "completed" -> WorkerAnswer("completed")
               [] event = "worker_error" -> WorkerAnswer("error")
               [] event = "backend_error" -> Response("error")
               [] event = "rejected" -> Response("rejected")
               [] event = "connect_error" -> Raised("ClientError")
               [] OTHER -> Raised("TimeoutError")
        ELSE CASE event = "completed" -> Response("completed")
               [] event = "backend_error" -> Response("error")
               [] event = "connect_error" -> Response("error")
               [] event = "handshake_error" -> Raised("ClientError")
               [] OTHER -> Raised("TimeoutError")

\* a rejected response handled as any other response
was_rejected_ignored(st) == FALSE

\* OpenClawResponse.was_rejected
was_rejected(st) == st = "rejected"

\* every exception of a send handled by the retry clause
ExceptClauseRetryAll(exc) == "retry"

\* dispatch(): the except clause that catches the exception of a send
ExceptClause(exc) == IF exc = "ClientError" THEN "retry" ELSE "timeout"

\* _audit: the entry appended
AuditEntry(event, k, st) == [event |-> event, attempt |-> k, status |-> st]

\* deque.append with no maxlen: nothing is ever dropped
RingAppendUnbounded(entries, max_size, entry) == Append(entries, entry)

\* BoundedAuditLog.append on a deque(maxlen=max_size)
RingAppend(entries, max_size, entry) ==
    IF max_size = 0 THEN entries
    ELSE IF Len(entries) = max_size THEN Append(Tail(entries), entry)
    ELSE Append(entries, entry)

\* BoundedAuditLog.append: the overflow counter
OverflowAfter(entries, max_size, count) ==
    IF Len(entries) = max_size THEN count + 1 ELSE count

\* self._audit(event, ...)
Audit(event, k, st) ==
    /\ audit_entries' = RingAppend(audit_entries, audit_max_size,
                                   AuditEntry(event, k, st))
    /\ overflow_count' = OverflowAfter(audit_entries, audit_max_size, overflow_count)

DispInit ==
    /\ adapter \in Adapters
    /\ \E arg \in {NoArg} \cup 0..MaxRetries, configured \in 0..MaxRetries :
          max_retries = MaxRetriesOf(adapter, arg, configured)
    /\ audit_max_size \in 1..MaxAuditSize
    /\ session = "none"
    /\ audit_entries = <<>>
    /\ overflow_count = 0
    /\ dpc = "idle"
    /\ attempt = 0
    /\ attempt_events = <<>>
    /\ waits = <<>>
    /\ outcome = "none"
    /\ calls = 0
    /\ net_sends = 0
    /\ req_age = 0

\* dispatch() with credentials past their TTL: audited and refused
DispatchExpired(age) ==
    /\ dpc = "idle"
    /\ calls < MaxCalls
    /\ is_expired(age, credential_max_age)
    /\ calls' = calls + 1
    /\ req_age' = age
    /\ Audit("credential_expired", 0, "none")
    /\ outcome' = "CredentialExpiredError"
    /\ attempt' = 0
    /\ attempt_events' = <<>>
    /\ waits' = <<>>
    /\ UNCHANGED <<adapter, max_retries, audit_max_size, session, dpc, net_sends>>
    /\ UNCHANGED dispOthers

\* dispatch() with live credentials: dispatch_start, then the retry loop
\* is entered; with max_retries < 1 its body never runs and the call ends
DispatchStart(age) ==
    /\ dpc = "idle"
    /\ calls < MaxCalls
    /\ ~is_expired(age, credential_max_age)
    /\ calls' = calls + 1
    /\ req_age' = age
    /\ Audit("dispatch_start", 0, "none")
    /\ attempt_events' = <<>>
    /\ waits' = <<>>
    /\ IF max_retries >= 1
          THEN /\ attempt' = 1
               /\ dpc' = "sending"
               /\ outcome' = "pending"
          ELSE /\ attempt' = 0
               /\ dpc' = "idle"
               /\ outcome' = "None"
    /\ UNCHANGED <<adapter, max_retries, audit_max_size, session, net_sends>>
    /\ UNCHANGED dispOthers

\* one pass of the loop body: the send, then what dispatch() does with it
SendAttempt(event) ==
    /\ dpc = "sending"
    /\ event \in SendEvents(adapter)
    /\ session' = "open"
    /\ net_sends' = net_sends + 1
    /\ attempt_events' = Append(attempt_events, event)
    /\ LET r == SendResult(adapter, event)
           branch == IF r.raised = "none"
                        THEN IF was_rejected(r.status) THEN "rejected" ELSE "complete"
                        ELSE ExceptClause(r.raised)
       IN CASE branch = "rejected" ->
                 /\ Audit("task_rejected", 0, "none")
                 /\ outcome' = "OpenClawRejectedError"
                 /\ dpc' = "idle"
                 /\ UNCHANGED waits
            [] branch = "complete" ->
                 /\ Audit("dispatch_complete", 0, r.status)
                 /\ outcome' = r.status
                 /\ dpc' = "idle"
                 /\ UNCHANGED waits
            [] branch = "retry" ->
                 /\ Audit("dispatch_retry", attempt, "none")
                 /\ IF attempt < max_retries
                       THEN /\ waits' = Append(waits, Backoff(adapter, attempt))
                            /\ dpc' = "backoff"
                            /\ UNCHANGED outcome
                       ELSE /\ outcome' = "OpenClawConnectionError"
                            /\ dpc' = "idle"
                            /\ UNCHANGED waits
            [] OTHER ->
                 /\ Audit("dispatch_timeout", 0, "none")
                 /\ outcome' = "OpenClawTimeoutError"
                 /\ dpc' = "idle"
                 /\ UNCHANGED waits
    /\ UNCHANGED <<adapter, max_retries, audit_max_size, attempt, calls, req_age>>
    /\ UNCHANGED dispOthers

\* asyncio.sleep(backoff) returns: continue with the next attempt
BackoffDone ==
    /\ dpc = "backoff"
    /\ attempt' = attempt + 1
    /\ dpc' = "sending"
    /\ UNCHANGED <<adapter, max_retries, audit_max_size, session, audit_entries,
                   overflow_count, attempt_events, waits, outcome, calls,
                   net_sends, req_age>>
    /\ UNCHANGED dispOthers

\* close(): the session is closed and the audit log flushed
AdapterClose ==
    /\ dpc = "idle"
    /\ session' = "none"
    /\ audit_entries' = <<>>
    /\ overflow_count' = 0
    /\ UNCHANGED <<adapter, max_retries, audit_max_size, dpc, attempt,
                   attempt_events, waits, outcome, calls, net_sends, req_age>>
    /\ UNCHANGED dispOthers

DispNext ==
    \/ \E age \in Ages : DispatchExpired(age)
    \/ \E age \in Ages : DispatchStart(age)
    \/ \E event \in SendEvents("openclaw") \cup SendEvents("moltworker") :
          SendAttempt(event)
    \/ BackoffDone
    \/ AdapterClose

(***************************************************************************)
(* Planner front end: plan, decompose, _validate_graph                     *)
(***************************************************************************)
\* the intent types plan() tells apart
IntentTypes == {"chitchat", "research"}
\* confidence values of a parsed intent, in tenths
Confidences == {3, 5, 6}
\* ambiguity_threshold: the dataclass default and the from_env default, in tenths
Thresholds == {4, 6}

\* what IntentParser.parse can return
Intents ==
    [intent_type : IntentTypes, needs_clarification : BOOLEAN,
     confidence : Confidences]

NoIntent == [intent_type |-> "none", needs_clarification |-> FALSE, confidence |-> 0]

\* a list holding the members of S in ascending order
RECURSIVE SortedList(_)
SortedList(S) ==
    IF S = {} THEN <<>>
    ELSE LET m == CHOOSE x \in S : \A y \in S : x <= y
         IN <<m>> \o SortedList(S \ {m})

\* indices a model may name in a task's depends_on; the last one is never
\* the index of a task
DepIndices == 0..MaxTasks

\* one element of the model's task array: an object with a depends_on array,
\* or something that is not an object
TaskData ==
    {[well_formed |-> TRUE, depends_on |-> SortedList(S)] :
        S \in {T \in SUBSET DepIndices : Cardinality(T) <= MaxEdges}}
    \cup {[well_formed |-> FALSE, depends_on |-> <<>>]}

RECURSIVE TaskArrays(_, _)
\* the task arrays of length n that name at most budget dependencies in all
TaskArrays(n, budget) ==
    IF n = 0 THEN {<<>>}
    ELSE UNION {{<<item>> \o rest :
                    rest \in TaskArrays(n - 1, budget - Len(item.depends_on))} :
                item \in {x \in TaskData : Len(x.depends_on) <= budget}}

\* what provider.complete_json can give decompose(): it raises, it returns
\* something that is not a list, or it returns a list
ModelOutputs ==
    {[shape |-> "raises", items |-> <<>>], [shape |-> "non_list", items |-> <<>>]}
    \cup {[shape |-> "list", items |-> its] :
            its \in UNION {TaskArrays(n, MaxEdges) : n \in 0..MaxTasks}}

NoOutput == [shape |-> "none", items |-> <<>>]

\* PlannedTask: task_id "task-<i>" and its depends_on list
PlannedTask(i, deps) == [task_id |-> i, depends_on |-> deps]

\* _fallback_task: task-0 with no dependencies
FallbackTask == PlannedTask(0, <<>>)

\* next((t for t in tasks if t.task_id == task_id), None), as a list of 0 or 1
TasksWithId(task_list, task_id) ==
    SelectSeq(task_list, LAMBDA t : t.task_id = task_id)

RECURSIVE has_cycle(_, _, _)
RECURSIVE VisitDeps(_, _, _, _)
\* _validate_graph.has_cycle: st carries visited, rec_stack and the result
has_cycle(task_list, task_id, st) ==
    LET entered == [visited |-> st.visited \cup {task_id},
                    rec_stack |-> st.rec_stack \cup {task_id},
                    found |-> FALSE]
        found_list == TasksWithId(task_list, task_id)
        after == IF found_list = <<>> THEN entered
                 ELSE VisitDeps(task_list, found_list[1].depends_on, 1, entered)
    IN IF after.found THEN after
       ELSE [after EXCEPT !.rec_stack = @ \ {task_id}]

\* has_cycle: the loop over task.depends_on, from position k
VisitDeps(task_list, deps, k, st) ==
    IF k > Len(deps) THEN st
    ELSE IF deps[k] \notin st.visited
        THEN LET r == has_cycle(task_list, deps[k], st)
             IN IF r.found THEN r ELSE VisitDeps(task_list, deps, k + 1, r)
    ELSE IF deps[k] \in st.rec_stack THEN [st EXCEPT !.found = TRUE]
    ELSE VisitDeps(task_list, deps, k + 1, st)

RECURSIVE CycleScan(_, _, _)
\* _validate_graph: the loop that starts has_cycle at every unvisited task
CycleScan(task_list, i, st) ==
    IF i > Len(task_list) THEN FALSE
    ELSE IF task_list[i].task_id \in st.visited THEN CycleScan(task_list, i + 1, st)
    ELSE LET r == has_cycle(task_list, task_list[i].task_id, st)
         IN IF r.found THEN TRUE ELSE CycleScan(task_list, i + 1, r)

\* _validate_graph with the cycle search left out
validate_graph_no_cycle_check(task_list) ==
    LET task_ids == {task_list[i].task_id : i \in 1..Len(task_list)}
    IN IF \E i \in 1..Len(task_list) :
            \E k \in 1..Len(task_list[i].depends_on) :
                task_list[i].depends_on[k] \notin task_ids
        THEN "missing"
        ELSE "none"

\* _validate_graph: "none" for None, else which error
validate_graph(task_list) ==
    LET task_ids == {task_list[i].task_id : i \in 1..Len(task_list)}
    IN IF \E i \in 1..Len(task_list) :
            \E k \in 1..Len(task_list[i].depends_on) :
                task_list[i].depends_on[k] \notin task_ids
        THEN "missing"
       ELSE IF CycleScan(task_list, 1,
                         [visited |-> {}, rec_stack |-> {}, found |-> FALSE])
        THEN "cycle"
        ELSE "none"

\* decompose(): tasks_data taken whole, without the slice
Unclamped(items, max_tasks) == items

\* decompose(): tasks_data[:max_tasks_per_request]
Clamped(items, max_tasks) ==
    SubSeq(items, 1, IF Len(items) < max_tasks THEN Len(items) ELSE max_tasks)

\* decompose(): the PlannedTask list built from the clamped array
BuiltTasks(items, max_tasks) ==
    LET cut == Clamped(items, max_tasks)
    IN [i \in 1..Len(cut) |-> PlannedTask(i - 1, cut[i].depends_on)]

\* decompose(): the list it returns for an intent and a model output
Decompose(int, data, max_tasks) ==
    IF int.intent_type = "chitchat" \/ int.needs_clarification THEN <<>>
    ELSE IF data.shape # "list" THEN <<FallbackTask>>
    ELSE LET cut == Clamped(data.items, max_tasks)
             built == BuiltTasks(data.items, max_tasks)
         IN IF \E i \in 1..Len(cut) : ~cut[i].well_formed THEN <<FallbackTask>>
            ELSE IF built = <<>> THEN <<FallbackTask>>
            ELSE IF validate_graph(built) # "none" THEN <<FallbackTask>>
            ELSE built

PlanInit ==
    /\ ambiguity_threshold \in Thresholds
    /\ max_tasks_per_request \in {MaxTasks - 1, MaxTasks}
    /\ plan_pc = "idle"
    /\ intent = NoIntent
    /\ tasks_data = NoOutput
    /\ planned_tasks = <<>>
    /\ plan_result = "none"
    /\ decomp_requests = 0

\* plan(): the parsed intent is chitchat
PlanChitchat(int) ==
    /\ plan_pc = "idle"
    /\ int.intent_type = "chitchat"
    /\ intent' = int
    /\ plan_result' = "chitchat"
    /\ plan_pc' = "planned"
    /\ UNCHANGED <<ambiguity_threshold, max_tasks_per_request, tasks_data,
                   planned_tasks, decomp_requests>>
    /\ UNCHANGED planOthers

\* plan(): the intent needs clarification or its confidence is below the
\* ambiguity threshold
PlanClarification(int) ==
    /\ plan_pc = "idle"
    /\ int.intent_type # "chitchat"
    /\ int.needs_clarification \/ int.confidence < ambiguity_threshold
    /\ intent' = int
    /\ plan_result' = "clarification"
    /\ plan_pc' = "planned"
    /\ UNCHANGED <<ambiguity_threshold, max_tasks_per_request, tasks_data,
                   planned_tasks, decomp_requests>>
    /\ UNCHANGED planOthers

\* plan(): decomposer.decompose(intent) is awaited, with the confidence of
\* the intent not looked at
PlanDecomposeIgnoringConfidence(int) ==
    /\ plan_pc = "idle"
    /\ int.intent_type # "chitchat"
    /\ ~int.needs_clarification
    /\ intent' = int
    /\ decomp_requests' = decomp_requests + 1
    /\ plan_pc' = "decomposing"
    /\ UNCHANGED <<ambiguity_threshold, max_tasks_per_request, tasks_data,
                   planned_tasks, plan_result>>
    /\ UNCHANGED planOthers

\* plan(): decomposer.decompose(intent) is awaited; it sends its request
PlanDecompose(int) ==
    /\ plan_pc = "idle"
    /\ int.intent_type # "chitchat"
    /\ ~(int.needs_clarification \/ int.confidence < ambiguity_threshold)
    /\ intent' = int
    /\ decomp_requests' = decomp_requests + 1
    /\ plan_pc' = "decomposing"
    /\ UNCHANGED <<ambiguity_threshold, max_tasks_per_request, tasks_data,
                   planned_tasks, plan_result>>
    /\ UNCHANGED planOthers

\* decompose() gets the model's answer and returns its task list; plan()
\* wraps it in a TaskGraph, or reports an error for an empty list
DecomposeReturns ==
    /\ plan_pc = "decomposing"
    /\ \E data \in ModelOutputs :
          /\ tasks_data' = data
          /\ planned_tasks' = Decompose(intent, data, max_tasks_per_request)
    /\ plan_result' = IF planned_tasks' = <<>> THEN "error" ELSE "task_graph"
    /\ plan_pc' = "planned"
    /\ UNCHANGED <<ambiguity_threshold, max_tasks_per_request, intent,
                   decomp_requests>>
    /\ UNCHANGED planOthers

\* plan_and_execute(): the plan is no task graph: it is returned as it is
PlanAndExecuteReturnsPlan ==
    /\ plan_pc = "planned"
    /\ plan_result \in {"error", "clarification", "chitchat"}
    /\ plan_pc' = "returned"
    /\ UNCHANGED <<ambiguity_threshold, max_tasks_per_request, intent,
                   tasks_data, planned_tasks, plan_result, decomp_requests>>
    /\ UNCHANGED planOthers

\* plan_and_execute(): the task graph is handed to execute()
PlanAndExecuteExecutes ==
    /\ plan_pc = "planned"
    /\ plan_result = "task_graph"
    /\ plan_pc' = "executing"
    /\ UNCHANGED <<ambiguity_threshold, max_tasks_per_request, intent,
                   tasks_data, planned_tasks, plan_result, decomp_requests>>
    /\ UNCHANGED planOthers

PlanNext ==
    \/ \E int \in Intents : PlanChitchat(int)
    \/ \E int \in Intents : PlanClarification(int)
    \/ \E int \in Intents : PlanDecompose(int)
    \/ DecomposeReturns
    \/ PlanAndExecuteReturnsPlan
    \/ PlanAndExecuteExecutes

(***************************************************************************)
(* Credentials of a dispatch: issued_at against the adapter's TTL          *)
(***************************************************************************)
\* issued_at of the request: the executor's own credentials, passed through
ExecutionCredentialsIssuedAt == exec_issued_at

\* issued_at of the request: datetime.now() when the request is built
FreshIssuedAt == wall_clock

CredInit ==
    /\ wall_clock = 0
    /\ cred_ttl \in 0..MaxCredTtl
    /\ exec_issued_at = 0
    /\ cred_pc = "idle"
    /\ req_issued_at = 0
    /\ dispatch_at = 0
    /\ cred_outcome = "none"
    /\ cred_dispatches = 0

\* time passes while earlier tasks run, or before execute() is called
TimePasses ==
    /\ cred_pc = "idle"
    /\ wall_clock < MaxClock
    /\ wall_clock' = wall_clock + 1
    /\ UNCHANGED <<cred_ttl, exec_issued_at, cred_pc, req_issued_at,
                   dispatch_at, cred_outcome, cred_dispatches>>
    /\ UNCHANGED credOthers

\* _execute_single_task: fresh_credentials and the request are built and
\* adapter.dispatch(request) is called
BuildRequest ==
    /\ cred_pc = "idle"
    /\ cred_dispatches < MaxCalls
    /\ req_issued_at' = FreshIssuedAt
    /\ dispatch_at' = wall_clock
    /\ cred_dispatches' = cred_dispatches + 1
    /\ cred_pc' = "built"
    /\ UNCHANGED <<wall_clock, cred_ttl, exec_issued_at, cred_outcome>>
    /\ UNCHANGED credOthers

\* nothing is awaited between the building of the credentials and the
\* adapter's TTL check: what passes is the run time of straight-line code,
\* less than a second
BuildToCheck ==
    /\ cred_pc = "built"
    /\ wall_clock < MaxClock
    /\ (wall_clock + 1) - dispatch_at < TicksPerSecond
    /\ wall_clock' = wall_clock + 1
    /\ UNCHANGED <<cred_ttl, exec_issued_at, cred_pc, req_issued_at,
                   dispatch_at, cred_outcome, cred_dispatches>>
    /\ UNCHANGED credOthers

\* dispatch(): is_expired(config.credential_max_age) holds:
\* CredentialExpiredError
CredentialCheckRefuses ==
    /\ cred_pc = "built"
    /\ is_expired(wall_clock - req_issued_at, cred_ttl * TicksPerSecond)
    /\ cred_outcome' = "CredentialExpiredError"
    /\ cred_pc' = "idle"
    /\ UNCHANGED <<wall_clock, cred_ttl, exec_issued_at, req_issued_at,
                   dispatch_at, cred_dispatches>>
    /\ UNCHANGED credOthers

\* dispatch(): the credentials are within their TTL: the request goes out
CredentialCheckPasses ==
    /\ cred_pc = "built"
    /\ ~is_expired(wall_clock - req_issued_at, cred_ttl * TicksPerSecond)
    /\ cred_outcome' = "sent"
    /\ cred_pc' = "idle"
    /\ UNCHANGED <<wall_clock, cred_ttl, exec_issued_at, req_issued_at,
                   dispatch_at, cred_dispatches>>
    /\ UNCHANGED credOthers

CredNext ==
    \/ TimePasses
    \/ BuildRequest
    \/ BuildToCheck
    \/ CredentialCheckRefuses
    \/ CredentialCheckPasses

(***************************************************************************)
(* Policy engine: reload on a changed fingerprint, POLICY_RELOADED         *)
(***************************************************************************)
\* contents the policy file may have: two documents, one of them in two
\* spellings, an empty file and a file that is not YAML
PolicyBytes == {"v1", "v1 respelled", "v2", "empty file", "not yaml"}
Absent == "absent"
NoBytes == "none"

\* _hash_bytes: the digest of the raw bytes
hash_bytes(data) == <<"digest", data>>
\* policy_hash before any load
NoFingerprint == <<"", "">>

\* yaml.safe_load of the file: the document, None for an empty file
Parses(data) == data # "not yaml"
load_yaml(data) ==
    CASE data \in {"v1", "v1 respelled"} -> <<"document", "v1">>
      [] data = "v2" -> <<"document", "v2">>
      [] OTHER -> <<"document", "None">>
DEFAULT_POLICY == <<"document", "DEFAULT_POLICY">>
EmptyPolicy == <<"document", "{}">>

\* reload(): the comparison of the fingerprints, left out
SameFingerprintNever(new_hash, cached) == FALSE

\* reload(): new_hash == self.policy_hash
SameFingerprint(new_hash, cached) == new_hash = cached

\* PolicyEngine.__init__ as the watchdog calls it: no path when the file is
\* absent at startup (the default document), else the first reload()
PolicyInit ==
    /\ policy_file \in PolicyBytes \cup {Absent}
    /\ policy_path = IF policy_file = Absent THEN "none" ELSE "set"
    /\ policy = IF policy_file = Absent THEN DEFAULT_POLICY
                ELSE IF Parses(policy_file) THEN load_yaml(policy_file)
                ELSE EmptyPolicy
    /\ policy_hash = IF policy_file = Absent THEN hash_bytes("DEFAULT_POLICY")
                     ELSE IF Parses(policy_file) THEN hash_bytes(policy_file)
                     ELSE NoFingerprint
    /\ load_count = IF policy_file # Absent /\ Parses(policy_file) THEN 1 ELSE 0
    /\ loaded_raw = IF policy_file # Absent /\ Parses(policy_file)
                    THEN policy_file ELSE NoBytes
    /\ ppc = "idle"
    /\ raw = NoBytes
    /\ policy_events = <<>>
    /\ reloads = 0
    /\ reload_outcome = "none"
    /\ unchanged_run = 0

\* the operator, or a deployment step, rewrites or removes the policy file
EditPolicyFile(data) ==
    /\ data # policy_file
    /\ policy_file' = data
    /\ UNCHANGED <<policy_path, policy, policy_hash, load_count, ppc, raw,
                   policy_events, reloads, reload_outcome, unchanged_run,
                   loaded_raw>>
    /\ UNCHANGED policyOthers

\* reload(): no path, or no file at the path: False
ReloadNoFile ==
    /\ ppc = "idle"
    /\ reloads < MaxReloads
    /\ policy_path = "none" \/ policy_file = Absent
    /\ reloads' = reloads + 1
    /\ reload_outcome' = "no file"
    /\ unchanged_run' = 0
    /\ UNCHANGED <<policy_path, policy_file, policy, policy_hash, load_count,
                   ppc, raw, policy_events, loaded_raw>>
    /\ UNCHANGED policyOthers

\* reload(): read_bytes raised (the file went away, or cannot be read): False
ReloadReadFails ==
    /\ ppc = "idle"
    /\ reloads < MaxReloads
    /\ policy_path = "set"
    /\ policy_file # Absent
    /\ reloads' = reloads + 1
    /\ reload_outcome' = "failed"
    /\ unchanged_run' = 0
    /\ UNCHANGED <<policy_path, policy_file, policy, policy_hash, load_count,
                   ppc, raw, policy_events, loaded_raw>>
    /\ UNCHANGED policyOthers

\* reload(): the bytes hash to the cached fingerprint: False
ReloadUnchanged ==
    /\ ppc = "idle"
    /\ reloads < MaxReloads
    /\ policy_path = "set"
    /\ policy_file # Absent
    /\ SameFingerprint(hash_bytes(policy_file), policy_hash)
    /\ reloads' = reloads + 1
    /\ reload_outcome' = "unchanged"
    /\ unchanged_run' = unchanged_run + 1
    /\ UNCHANGED <<policy_path, policy_file, policy, policy_hash, load_count,
                   ppc, raw, policy_events, loaded_raw>>
    /\ UNCHANGED policyOthers

\* reload(): the bytes hash to something else; _load_yaml is about to open
\* the file again
ReloadReadChanged ==
    /\ ppc = "idle"
    /\ reloads < MaxReloads
    /\ policy_path = "set"
    /\ policy_file # Absent
    /\ ~SameFingerprint(hash_bytes(policy_file), policy_hash)
    /\ reloads' = reloads + 1
    /\ raw' = policy_file
    /\ ppc' = "read"
    /\ unchanged_run' = 0
    /\ UNCHANGED <<policy_path, policy_file, policy, policy_hash, load_count,
                   policy_events, reload_outcome, loaded_raw>>
    /\ UNCHANGED policyOthers

\* reload(): _load_yaml raised with the fingerprint already stored
ReloadParseFailsHashStored ==
    /\ ppc = "read"
    /\ policy_file = Absent \/ ~Parses(policy_file)
    /\ policy_hash' = hash_bytes(raw)
    /\ reload_outcome' = "failed"
    /\ raw' = NoBytes
    /\ ppc' = "idle"
    /\ UNCHANGED <<policy_path, policy_file, policy, load_count,
                   policy_events, reloads, unchanged_run, loaded_raw>>
    /\ UNCHANGED policyOthers

\* reload(): _load_yaml raised (the file is gone, or is not YAML): False
ReloadParseFails ==
    /\ ppc = "read"
    /\ policy_file = Absent \/ ~Parses(policy_file)
    /\ reload_outcome' = "failed"
    /\ raw' = NoBytes
    /\ ppc' = "idle"
    /\ UNCHANGED <<policy_path, policy_file, policy, policy_hash, load_count,
                   policy_events, reloads, unchanged_run, loaded_raw>>
    /\ UNCHANGED policyOthers

\* reload(): _load_yaml returned: document, fingerprint and counter are
\* assigned and True is returned; the watchdog loop then appends
\* POLICY_RELOADED with policy.fingerprint()
ReloadLoaded ==
    /\ ppc = "read"
    /\ policy_file # Absent
    /\ Parses(policy_file)
    /\ policy' = load_yaml(policy_file)
    /\ policy_hash' = hash_bytes(raw)
    /\ load_count' = load_count + 1
    /\ policy_events' = Append(policy_events, hash_bytes(raw))
    /\ loaded_raw' = raw
    /\ reload_outcome' = "loaded"
    /\ raw' = NoBytes
    /\ ppc' = "idle"
    /\ UNCHANGED <<policy_path, policy_file, reloads, unchanged_run>>
    /\ UNCHANGED policyOthers

PolicyNext ==
    \/ \E data \in PolicyBytes \cup {Absent} : EditPolicyFile(data)
    \/ ReloadNoFile
    \/ ReloadReadFails
    \/ ReloadUnchanged
    \/ ReloadReadChanged
    \/ ReloadParseFails
    \/ ReloadLoaded

(***************************************************************************)
(* Attestation gate: require_attestation, verify, dispatch                 *)
(***************************************************************************)
\* the executors of the default policy document
Executors == {"clawd-runner", "openclaw-nightshift"}

\* PolicyEngine.requires_attestation: worker_policy.get(..., True)
requires_attestation(e) == require_attestation[e] # "false"

\* PolicyEngine.check: the kill-severity violations it reports for an
\* executor with the given attestation outcome (it has no attestation rule;
\* stats within the limits)
CheckAttestation(e, att) == {}

GateInit ==
    /\ require_attestation \in [Executors -> {"true", "false", "missing"}]
    /\ attestation = [e \in Executors |-> "none"]
    /\ task_dispatches = [e \in Executors |-> 0]
    /\ gate_checked = {}
    /\ gate_violations = {}

\* AttestationAuthority.verify returned True for the executor's response
WorkerVerified(e) ==
    /\ attestation[e] # "verified"
    /\ attestation' = [attestation EXCEPT ![e] = "verified"]
    /\ UNCHANGED <<require_attestation, task_dispatches, gate_checked,
                   gate_violations>>
    /\ UNCHANGED gateOthers

\* AttestationAuthority.verify returned False for the executor's response
WorkerVerifyFailed(e) ==
    /\ attestation[e] # "failed"
    /\ attestation' = [attestation EXCEPT ![e] = "failed"]
    /\ UNCHANGED <<require_attestation, task_dispatches, gate_checked,
                   gate_violations>>
    /\ UNCHANGED gateOthers

\* _execute_single_task: the request is built and adapter.dispatch(request)
\* is called; neither the policy nor the authority is consulted
DispatchToExecutor(e) ==
    /\ task_dispatches[e] < MaxCalls
    /\ task_dispatches' = [task_dispatches EXCEPT ![e] = @ + 1]
    /\ UNCHANGED <<require_attestation, attestation, gate_checked,
                   gate_violations>>
    /\ UNCHANGED gateOthers

\* the watchdog loop runs PolicyEngine.check on the executor's container
GateCheck(e) ==
    /\ gate_checked' = gate_checked \cup {e}
    /\ gate_violations' = gate_violations \cup CheckAttestation(e, attestation[e])
    /\ UNCHANGED <<require_attestation, attestation, task_dispatches>>
    /\ UNCHANGED gateOthers

GateNext ==
    \/ \E e \in Executors : WorkerVerified(e)
    \/ \E e \in Executors : WorkerVerifyFailed(e)
    \/ \E e \in Executors : DispatchToExecutor(e)
    \/ \E e \in Executors : GateCheck(e)

(***************************************************************************)
(* Watchdog loop: PolicyEngine.check, POLICY_VIOLATION, kill_container     *)
(***************************************************************************)
MONITORED_CONTAINERS == <<"clawd-runner", "openclaw-nightshift">>
Containers == {MONITORED_CONTAINERS[i] : i \in DOMAIN MONITORED_CONTAINERS}

\* the limits of a policy entry on cpu and memory: those of the policy loaded
\* at startup, and those of the policy in force (get_worker_policy); the
\* values a stats sample can carry: at the startup limit or above it
WorkerLimitsAtStartup == [max_cpu_pct |-> MaxLimit, max_memory_mb |-> MaxLimit]
WorkerLimits == [max_cpu_pct |-> MaxLimit, max_memory_mb |-> max_memory_mb]
StatsSamples == [cpu_percent : {MaxLimit, MaxLimit + 1},
                 memory_mb : {MaxLimit, MaxLimit + 1}]

Violation(rule, severity) == [rule |-> rule, severity |-> severity]

\* PolicyEngine.check: for a container without a policy entry, unknown_worker
\* when kill_unknown_workers is set; for one with an entry (without
\* deny_outbound), the violations in the order they are appended
check(stats, runtime_seconds) ==
    IF ~has_worker_entry
        THEN IF kill_unknown_workers
                THEN <<Violation("unknown_worker", "kill")>> ELSE <<>>
    ELSE
    (IF runtime_seconds > max_runtime_sec
        THEN <<Violation("max_runtime_sec", "kill")>> ELSE <<>>)
    \o (IF stats.cpu_percent > WorkerLimits.max_cpu_pct
        THEN <<Violation("max_cpu_pct", "warn")>> ELSE <<>>)
    \o (IF stats.memory_mb > WorkerLimits.max_memory_mb
        THEN <<Violation("max_memory_mb", "kill")>> ELSE <<>>)

\* PolicyEngine.should_kill
should_kill(violations) ==
    IF ~kill_on_violation THEN FALSE
    ELSE \E i \in DOMAIN violations : violations[i].severity = "kill"

Record(event, rule) == [event |-> event, rule |-> rule]

\* kill_container: KILL_TRIGGERED, then KILL_COMPLETED; nothing more when the
\* restart or stop raised
KillRecordsFailureUnaudited(kill_ok) ==
    IF kill_ok
        THEN <<Record("KILL_TRIGGERED", "none"), Record("KILL_COMPLETED", "none")>>
        ELSE <<Record("KILL_TRIGGERED", "none")>>

\* kill_container: KILL_TRIGGERED, then KILL_COMPLETED, or KILL_FAILED when
\* the restart or stop raised
KillRecords(kill_ok) ==
    <<Record("KILL_TRIGGERED", "none"),
      Record(IF kill_ok THEN "KILL_COMPLETED" ELSE "KILL_FAILED", "none")>>

\* the loop over the violations: each kill-severity one is audited and, when
\* should_kill([v]) holds, the container is killed; the loop goes on
RECURSIVE ViolationRecords(_, _, _)
ViolationRecords(violations, i, kill_ok) ==
    IF i > Len(violations) THEN <<>>
    ELSE LET v == violations[i]
         IN (IF v.severity = "kill"
                THEN <<Record("POLICY_VIOLATION", v.rule)>>
                     \o (IF should_kill(<<v>>) THEN KillRecords(kill_ok) ELSE <<>>)
                ELSE <<>>)
            \o ViolationRecords(violations, i + 1, kill_ok)

\* what runtime the loop hands to check(): nothing, so the parameter's
\* default
RuntimeHanded(c) == DefaultRuntimeSeconds

Current == MONITORED_CONTAINERS[wpc]

WatchInit ==
    /\ max_runtime_sec \in 1..MaxLimit
    /\ kill_on_violation \in BOOLEAN
    /\ kill_action \in {"restart", "stop"}
    /\ container_status = [c \in Containers |-> "running"]
    /\ elapsed = [c \in Containers |-> 0]
    /\ consecutive_high_cpu = [c \in Containers |-> 0]
    /\ wpc = 1
    /\ watch_outcome = "none"
    /\ tick_log = <<>>

\* client.containers.get raised NotFound
WatchNotFound ==
    /\ wpc <= Len(MONITORED_CONTAINERS)
    /\ container_status[Current] = "absent"
    /\ tick_log' = <<Record("CONTAINER_NOT_FOUND", "none")>>
    /\ watch_outcome' = "not found"
    /\ wpc' = wpc + 1
    /\ UNCHANGED <<max_runtime_sec, kill_on_violation, kill_action,
                   container_status, elapsed, consecutive_high_cpu>>
    /\ UNCHANGED watchOthers

\* the container is not running
WatchNotRunning ==
    /\ wpc <= Len(MONITORED_CONTAINERS)
    /\ container_status[Current] = "exited"
    /\ tick_log' = <<Record("CONTAINER_NOT_RUNNING", "none")>>
    /\ watch_outcome' = "not running"
    /\ wpc' = wpc + 1
    /\ UNCHANGED <<max_runtime_sec, kill_on_violation, kill_action,
                   container_status, elapsed, consecutive_high_cpu>>
    /\ UNCHANGED watchOthers

\* get_container_stats returned None
WatchNoStats ==
    /\ wpc <= Len(MONITORED_CONTAINERS)
    /\ container_status[Current] = "running"
    /\ tick_log' = <<>>
    /\ watch_outcome' = "no stats"
    /\ wpc' = wpc + 1
    /\ UNCHANGED <<max_runtime_sec, kill_on_violation, kill_action,
                   container_status, elapsed, consecutive_high_cpu>>
    /\ UNCHANGED watchOthers

\* the loop body on a running container with a stats sample: the policy
\* check and its kills, the memory check, the sustained-cpu check
WatchChecked(stats, kill_ok) ==
    /\ wpc <= Len(MONITORED_CONTAINERS)
    /\ container_status[Current] = "running"
    /\ LET c == Current
           violations == check(stats, RuntimeHanded(c))
           by_policy == ViolationRecords(violations, 1, kill_ok)
           policy_killed == \E i \in DOMAIN by_policy :
                                by_policy[i].event = "KILL_TRIGGERED"
           memory_killed == stats.memory_mb > WorkerLimits.max_memory_mb
           cpu_high == stats.cpu_percent > WorkerLimits.max_cpu_pct
           count == (IF policy_killed THEN 0 ELSE consecutive_high_cpu[c]) + 1
           cpu_killed == /\ ~memory_killed
                         /\ cpu_high
                         /\ count >= HIGH_CPU_THRESHOLD_CHECKS
           killed == policy_killed \/ memory_killed \/ cpu_killed
       IN /\ tick_log' = by_policy
                \o (IF memory_killed \/ cpu_killed THEN KillRecords(kill_ok)
                    ELSE <<>>)
          /\ consecutive_high_cpu' =
                [consecutive_high_cpu EXCEPT ![c] =
                    IF memory_killed \/ cpu_killed \/ ~cpu_high THEN 0
                    ELSE count]
          /\ container_status' =
                [container_status EXCEPT ![c] =
                    IF killed /\ kill_ok /\ kill_action = "stop" THEN "exited"
                    ELSE @]
          /\ elapsed' = [elapsed EXCEPT ![c] = IF killed /\ kill_ok THEN 0 ELSE @]
    /\ watch_outcome' = "checked"
    /\ wpc' = wpc + 1
    /\ UNCHANGED <<max_runtime_sec, kill_on_violation, kill_action>>
    /\ UNCHANGED watchOthers

\* time.sleep(CHECK_INTERVAL): the running containers run on
WatchSleep ==
    /\ wpc > Len(MONITORED_CONTAINERS)
    /\ wpc' = 1
    /\ elapsed' = [c \in Containers |->
                     IF container_status[c] = "running" /\ elapsed[c] < MaxRuntime
                        THEN elapsed[c] + 1 ELSE elapsed[c]]
    /\ UNCHANGED <<max_runtime_sec, kill_on_violation, kill_action,
                   container_status, consecutive_high_cpu, watch_outcome,
                   tick_log>>
    /\ UNCHANGED watchOthers

\* a container ends its task, is removed, or is started again
ContainerChanges(c, st) ==
    /\ container_status[c] # st
    /\ container_status' = [container_status EXCEPT ![c] = st]
    /\ elapsed' = [elapsed EXCEPT ![c] = 0]
    /\ UNCHANGED <<max_runtime_sec, kill_on_violation, kill_action,
                   consecutive_high_cpu, wpc, watch_outcome, tick_log>>
    /\ UNCHANGED watchOthers

WatchNext ==
    \/ WatchNotFound
    \/ WatchNotRunning
    \/ WatchNoStats
    \/ \E stats \in StatsSamples, kill_ok \in BOOLEAN : WatchChecked(stats, kill_ok)
    \/ WatchSleep
    \/ \E c \in Containers, st \in {"running", "exited", "absent"} :
          ContainerChanges(c, st)

(***************************************************************************)
(* BoundedAuditLog: append, flush, the flush callback                      *)
(* (zulu_openclaw_adapter.py; both adapters hold one and flush it on close)*)
(***************************************************************************)
\* BoundedAuditLog.__init__
LogInit ==
    /\ log_max_size \in 0..MaxAuditSize
    /\ on_flush \in BOOLEAN
    /\ log_entries = <<>>
    /\ log_overflow = 0
    /\ log_appended = 0
    /\ log_dropped = 0
    /\ log_delivered = <<>>
    /\ log_returned = <<>>
    /\ log_last = "none"

\* BoundedAuditLog.append(entry), as _audit calls it
LogAppend ==
    /\ log_appended < MaxLogAppends
    /\ log_appended' = log_appended + 1
    /\ log_entries' = RingAppend(log_entries, log_max_size, log_appended + 1)
    /\ log_overflow' = OverflowAfter(log_entries, log_max_size, log_overflow)
    /\ log_dropped' = log_dropped + (Len(log_entries) + 1 - Len(log_entries'))
    /\ log_last' = "append"
    /\ UNCHANGED <<log_max_size, on_flush, log_delivered, log_returned>>
    /\ UNCHANGED logOthers

\* BoundedAuditLog.flush(), called by flush_audit_log and by close
LogFlush ==
    /\ log_delivered' = IF on_flush /\ log_entries # <<>>
                        THEN log_delivered \o log_entries
                        ELSE log_delivered
    /\ log_returned' = log_entries
    /\ log_entries' = <<>>
    /\ log_overflow' = 0
    /\ log_dropped' = 0
    /\ log_last' = "flush"
    /\ UNCHANGED <<log_max_size, on_flush, log_appended>>
    /\ UNCHANGED logOthers

LogNext ==
    \/ LogAppend
    \/ LogFlush

(***************************************************************************)
(* Watchdog loop: the periodic policy reload at the top of every tick      *)
(* (monitor.py, PolicyEngine.reload), followed by the container passes     *)
(***************************************************************************)
\* POLICY_RELOAD_EVERY = max(1, policy_reload_interval // CHECK_INTERVAL)
ReloadEvery(policy_reload_interval, check_interval) ==
    IF policy_reload_interval \div check_interval > 1
        THEN policy_reload_interval \div check_interval
        ELSE 1

\* policy files that keep an entry for every monitored container
LoopFiles == {"v1", "v2", "not yaml"}

\* max_memory_mb of the worker entries of a loaded document: v2 lowers it
MemoryLimitOf(document) ==
    IF document = <<"document", "v2">> THEN MaxLimit - 1 ELSE MaxLimit

\* PolicyEngine.reload() on the file as it is: whether it returns True, and
\* the fingerprint and memory ceiling in force afterwards
ReloadOutcome(bytes_read, cached_hash, cached_limit) ==
    IF bytes_read = Absent \/ SameFingerprint(hash_bytes(bytes_read), cached_hash)
            \/ ~Parses(bytes_read)
        THEN [changed |-> FALSE, hash |-> cached_hash, limit |-> cached_limit]
        ELSE [changed |-> TRUE, hash |-> hash_bytes(bytes_read),
              limit |-> MemoryLimitOf(load_yaml(bytes_read))]

\* the watchdog starts with the policy file v1 loaded
LoopInit ==
    /\ \E interval \in 0..MaxInterval, check_interval \in 1..2 :
          policy_reload_every = ReloadEvery(interval, check_interval)
    /\ policy_check_counter = 0
    /\ loop_ticks = 0
    /\ loop_file = "v1"
    /\ loop_hash = hash_bytes("v1")
    /\ max_memory_mb = MaxLimit
    /\ reload_attempted = FALSE
    /\ top_log = <<>>

\* the top of the while loop: the counter, and every POLICY_RELOAD_EVERY-th
\* time policy.reload() and, when it returned True, POLICY_RELOADED
TickTop ==
    LET due == policy_check_counter + 1 >= policy_reload_every
        r == ReloadOutcome(loop_file, loop_hash, max_memory_mb)
    IN /\ loop_ticks' = loop_ticks + 1
       /\ policy_check_counter' = IF due THEN 0 ELSE policy_check_counter + 1
       /\ reload_attempted' = due
       /\ loop_hash' = IF due THEN r.hash ELSE loop_hash
       /\ max_memory_mb' = IF due THEN r.limit ELSE max_memory_mb
       /\ top_log' = IF due /\ r.changed
                        THEN <<Record("POLICY_RELOADED", r.hash)>> ELSE <<>>
       /\ UNCHANGED <<policy_reload_every, loop_file>>

\* the first pass of the while loop begins
FirstTick ==
    /\ loop_ticks = 0
    /\ wpc = 1
    /\ TickTop
    /\ UNCHANGED watchVars
    /\ UNCHANGED loopOthers

\* time.sleep(CHECK_INTERVAL) returns and the next pass of the while loop
\* begins
SleepThenTick ==
    /\ loop_ticks >= 1
    /\ loop_ticks < MaxTicks
    /\ wpc > Len(MONITORED_CONTAINERS)
    /\ wpc' = 1
    /\ elapsed' = [c \in Containers |->
                     IF container_status[c] = "running" /\ elapsed[c] < MaxRuntime
                        THEN elapsed[c] + 1 ELSE elapsed[c]]
    /\ TickTop
    /\ UNCHANGED <<max_runtime_sec, kill_on_violation, kill_action,
                   container_status, consecutive_high_cpu, watch_outcome,
                   tick_log>>
    /\ UNCHANGED loopOthers

\* the for loop of a tick that has begun: a container that is not running
LoopNotRunning == loop_ticks >= 1 /\ WatchNotRunning
\* ... a container whose stats could not be read
LoopNoStats == loop_ticks >= 1 /\ WatchNoStats
\* ... a running container with a stats sample
LoopChecked(stats, kill_ok) == loop_ticks >= 1 /\ WatchChecked(stats, kill_ok)

\* an operator rewrites the policy file
EditLoopFile(data) ==
    /\ loop_file # data
    /\ loop_file' = data
    /\ UNCHANGED <<policy_reload_every, policy_check_counter, loop_ticks,
                   loop_hash, max_memory_mb, reload_attempted, top_log>>
    /\ UNCHANGED watchVars
    /\ UNCHANGED loopOthers

LoopNext ==
    \/ FirstTick
    \/ SleepThenTick
    \/ LoopNotRunning
    \/ LoopNoStats
    \/ \E stats \in StatsSamples, kill_ok \in BOOLEAN : LoopChecked(stats, kill_ok)
    \/ \E data \in LoopFiles \cup {Absent} : EditLoopFile(data)

(***************************************************************************)
(* The adapter's client session: _get_session and close under the lock     *)
(* (zulu_openclaw_adapter.py, zulu_moltworker_adapter.py: the same code)   *)
(***************************************************************************)
\* the coroutines that dispatch on the one adapter
Callers == 1..MaxCallers
\* the coroutine that calls close()
Closer == 0

\* self._session is None or self._session.closed
NoOpenSession(current, closed) == current = 0 \/ current \in closed

\* the check under the lock left out
DoubleCheckSkipped(current, closed) == TRUE

\* _get_session: the check repeated after the lock is acquired
DoubleCheck(current, closed) == NoOpenSession(current, closed)

\* asyncio.Lock.acquire returns at once: unlocked and nobody waiting
LockFree == ~lock_locked /\ lock_waiters = <<>>

\* __init__: no session, a fresh lock
SessInit ==
    /\ sess_current = 0
    /\ sess_closed = {}
    /\ sess_created = 0
    /\ lock_locked = FALSE
    /\ lock_waiters = <<>>
    /\ cpc = [c \in Callers |-> "idle"]
    /\ held = [c \in Callers |-> 0]
    /\ scalls = [c \in Callers |-> 0]
    /\ close_pc = "idle"
    /\ closes = 0

\* _get_session under the lock: the second check, the ClientSession
\* constructor; nothing in it awaits
LockedSection(c) ==
    IF DoubleCheck(sess_current, sess_closed)
        THEN /\ sess_created' = sess_created + 1
             /\ sess_current' = sess_created + 1
             /\ held' = [held EXCEPT ![c] = sess_created + 1]
             /\ UNCHANGED sess_closed
        ELSE /\ held' = [held EXCEPT ![c] = sess_current]
             /\ UNCHANGED <<sess_current, sess_created, sess_closed>>

\* _send_request / _execute_via_websocket: await self._get_session(), up
\* to the first point where the coroutine is suspended
GetSession(c) ==
    /\ cpc[c] = "idle"
    /\ scalls[c] < MaxSends
    /\ scalls' = [scalls EXCEPT ![c] = @ + 1]
    /\ IF NoOpenSession(sess_current, sess_closed)
          THEN IF LockFree
                  THEN /\ LockedSection(c)
                       /\ cpc' = [cpc EXCEPT ![c] = "posting"]
                       /\ UNCHANGED lock_waiters
                  ELSE /\ lock_waiters' = Append(lock_waiters, c)
                       /\ cpc' = [cpc EXCEPT ![c] = "waiting"]
                       /\ UNCHANGED <<sess_current, sess_created, sess_closed,
                                      held>>
          ELSE /\ held' = [held EXCEPT ![c] = sess_current]
               /\ cpc' = [cpc EXCEPT ![c] = "posting"]
               /\ UNCHANGED <<sess_current, sess_created, sess_closed,
                              lock_waiters>>
    /\ UNCHANGED <<lock_locked, close_pc, closes>>
    /\ UNCHANGED sessOthers

\* the lock was released and this waiter is the first: it takes the lock,
\* runs the section and releases
LockAcquired(c) ==
    /\ cpc[c] = "waiting"
    /\ ~lock_locked
    /\ lock_waiters # <<>> /\ Head(lock_waiters) = c
    /\ lock_waiters' = Tail(lock_waiters)
    /\ LockedSection(c)
    /\ cpc' = [cpc EXCEPT ![c] = "posting"]
    /\ UNCHANGED <<lock_locked, scalls, close_pc, closes>>
    /\ UNCHANGED sessOthers

\* session.post / session.ws_connect on the session obtained returns
SendDone(c) ==
    /\ cpc[c] = "posting"
    /\ cpc' = [cpc EXCEPT ![c] = "idle"]
    /\ UNCHANGED <<sess_current, sess_closed, sess_created, lock_locked,
                   lock_waiters, held, scalls, close_pc, closes>>
    /\ UNCHANGED sessOthers

\* close() under the lock, up to where await self._session.close() may
\* suspend; whether ClientSession.close suspends, and whether .closed is
\* already True while it does, is the client library's choice
CloseSection(suspends, marked) ==
    IF sess_current # 0 /\ sess_current \notin sess_closed
        THEN IF suspends
                THEN /\ lock_locked' = TRUE
                     /\ close_pc' = "closing"
                     /\ sess_closed' = IF marked
                                       THEN sess_closed \cup {sess_current}
                                       ELSE sess_closed
                     /\ UNCHANGED sess_current
                ELSE /\ sess_closed' = sess_closed \cup {sess_current}
                     /\ sess_current' = 0
                     /\ close_pc' = "idle"
                     /\ UNCHANGED lock_locked
        ELSE /\ close_pc' = "idle"
             /\ UNCHANGED <<sess_current, sess_closed, lock_locked>>

\* close(): async with self._session_lock
CloseCall(suspends, marked) ==
    /\ close_pc = "idle"
    /\ closes < MaxCloses
    /\ closes' = closes + 1
    /\ IF LockFree
          THEN /\ CloseSection(suspends, marked)
               /\ UNCHANGED lock_waiters
          ELSE /\ lock_waiters' = Append(lock_waiters, Closer)
               /\ close_pc' = "waiting"
               /\ UNCHANGED <<sess_current, sess_closed, lock_locked>>
    /\ UNCHANGED <<sess_created, cpc, held, scalls>>
    /\ UNCHANGED sessOthers

\* close() was waiting for the lock and is the first waiter
CloseAcquired(suspends, marked) ==
    /\ close_pc = "waiting"
    /\ ~lock_locked
    /\ lock_waiters # <<>> /\ Head(lock_waiters) = Closer
    /\ lock_waiters' = Tail(lock_waiters)
    /\ CloseSection(suspends, marked)
    /\ UNCHANGED <<sess_created, cpc, held, scalls, closes>>
    /\ UNCHANGED sessOthers

\* await self._session.close() returns: self._session = None, lock released
CloseDone ==
    /\ close_pc = "closing"
    /\ sess_closed' = sess_closed \cup {sess_current}
    /\ sess_current' = 0
    /\ lock_locked' = FALSE
    /\ close_pc' = "idle"
    /\ UNCHANGED <<sess_created, lock_waiters, cpc, held, scalls, closes>>
    /\ UNCHANGED sessOthers

SessNext ==
    \/ \E c \in Callers : GetSession(c)
    \/ \E c \in Callers : LockAcquired(c)
    \/ \E c \in Callers : SendDone(c)
    \/ \E suspends, marked \in BOOLEAN : CloseCall(suspends, marked)
    \/ \E suspends, marked \in BOOLEAN : CloseAcquired(suspends, marked)
    \/ CloseDone

(***************************************************************************)
(* The constrained sandbox: handle_task and ConstrainedExecutor            *)
(* (openclaw_worker/server.py), fed with the task types of the planner     *)
(***************************************************************************)
\* class OpenClawTaskType: the adapter's closed enumeration
OpenClawTaskType ==
    {"web_research", "document_synthesis", "comparative_analysis",
     "report_drafting", "code_review", "data_extraction", "ping"}

\* class IntentType
IntentTypeEnum ==
    {"research", "synthesize", "analyze", "draft", "review", "extract",
     "clarify", "chitchat", "unknown"}

\* TaskDecomposer._fallback_task: task_type_map.get(intent_type, WEB_RESEARCH)
FallbackTaskType(intent_type) ==
    CASE intent_type = "research" -> "web_research"
      [] intent_type = "synthesize" -> "document_synthesis"
      [] intent_type = "analyze" -> "comparative_analysis"
      [] intent_type = "draft" -> "report_drafting"
      [] intent_type = "review" -> "code_review"
      [] intent_type = "extract" -> "data_extraction"
      [] OTHER -> "web_research"

\* the task-type strings a decomposition may name
TaskTypeStrings == OpenClawTaskType \cup {"summarize"}

\* TaskDecomposer.decompose: OpenClawTaskType(task_type_str), WEB_RESEARCH
\* when the string is no member of the enumeration
ParsedTaskType(task_type_str) ==
    IF task_type_str \in OpenClawTaskType THEN task_type_str ELSE "web_research"

\* the task types the planner can put in a graph
PlannerTaskTypes ==
    {FallbackTaskType(i) : i \in IntentTypeEnum}
        \cup {ParsedTaskType(str) : str \in TaskTypeStrings}

\* ConstrainedExecutor._run_task: the keys of its handlers dictionary
handlers ==
    {"web_research", "doc_synthesis", "comparative_analysis",
     "structured_report", "code_review", "ping"}

UnknownTaskType == "Unknown task type"

\* TaskResult.model_dump() as answered, with the HTTP status code
TaskResult(task_type, result_status, error) ==
    [task_type |-> task_type, status |-> result_status, error |-> error,
     status_code |-> WorkerStatusCode(result_status)]

SandboxInit ==
    /\ sb_spec = "none"
    /\ sb_results = <<>>

\* handle_task: the payload is no valid TaskSpec: answered 400, nothing runs
HandleInvalidTask ==
    /\ sb_spec = "none"
    /\ Len(sb_results) < MaxWorkerTasks
    /\ sb_results' = Append(sb_results,
                            [task_type |-> "none", status |-> "none",
                             error |-> "Invalid task spec", status_code |-> 400])
    /\ UNCHANGED sb_spec
    /\ UNCHANGED sandboxOthers

\* handle_task: the TaskSpec parses (task_type is any string);
\* ConstrainedExecutor(spec).execute() is awaited
HandleTask(task_type) ==
    /\ sb_spec = "none"
    /\ Len(sb_results) < MaxWorkerTasks
    /\ sb_spec' = task_type
    /\ UNCHANGED sb_results
    /\ UNCHANGED sandboxOthers

\* _run_task: handlers.get(task_type) is None: ValueError, caught by
\* execute(), answered as a TaskResult of status error
RunTaskUnknown ==
    /\ sb_spec # "none"
    /\ sb_spec \notin handlers
    /\ sb_results' = Append(sb_results,
                            TaskResult(sb_spec, "error", UnknownTaskType))
    /\ sb_spec' = "none"
    /\ UNCHANGED sandboxOthers

\* _run_task: the handler returns within the time limit
RunTaskCompleted ==
    /\ sb_spec \in handlers
    /\ sb_results' = Append(sb_results, TaskResult(sb_spec, "completed", "none"))
    /\ sb_spec' = "none"
    /\ UNCHANGED sandboxOthers

\* _run_task: the handler raises
RunTaskRaises ==
    /\ sb_spec \in handlers
    /\ sb_results' = Append(sb_results,
                            TaskResult(sb_spec, "error", "handler raised"))
    /\ sb_spec' = "none"
    /\ UNCHANGED sandboxOthers

\* execute(): asyncio.wait_for gives up after timeout_seconds
RunTaskTimeout ==
    /\ sb_spec \in handlers
    /\ sb_results' = Append(sb_results,
                            TaskResult(sb_spec, "timeout", "exceeded limit"))
    /\ sb_spec' = "none"
    /\ UNCHANGED sandboxOthers

SandboxNext ==
    \/ HandleInvalidTask
    \/ \E task_type \in PlannerTaskTypes : HandleTask(task_type)
    \/ RunTaskUnknown
    \/ RunTaskCompleted
    \/ RunTaskRaises
    \/ RunTaskTimeout

(***************************************************************************)
(* Specifications                                                          *)
(***************************************************************************)
\* the authority at rest
AttIdle ==
    /\ AttInit
    /\ nonce_ttl = MaxTtl

\* an adapter that is never called
DispIdle ==
    /\ DispInit
    /\ adapter = "openclaw"
    /\ max_retries = MaxRetries
    /\ audit_max_size = MaxAuditSize

\* a planner front end that is never called
PlanIdle ==
    /\ PlanInit
    /\ ambiguity_threshold = 4
    /\ max_tasks_per_request = MaxTasks

\* no dispatch is under way
CredIdle ==
    /\ CredInit
    /\ cred_ttl = MaxCredTtl

\* a policy engine on the default document, never reloaded
PolicyIdle ==
    /\ PolicyInit
    /\ policy_file = Absent

\* executors nothing is dispatched to
GateIdle ==
    /\ GateInit
    /\ require_attestation = [e \in Executors |-> "true"]

\* a watchdog that is not running
WatchIdle ==
    /\ WatchInit
    /\ max_runtime_sec = MaxLimit
    /\ kill_on_violation
    /\ kill_action = "restart"

LogIdle ==
    /\ log_max_size = 0
    /\ on_flush = FALSE
    /\ log_entries = <<>>
    /\ log_overflow = 0
    /\ log_appended = 0
    /\ log_dropped = 0
    /\ log_delivered = <<>>
    /\ log_returned = <<>>
    /\ log_last = "none"

LoopIdle ==
    /\ policy_reload_every = 1
    /\ policy_check_counter = 0
    /\ loop_ticks = 0
    /\ loop_file = "v1"
    /\ loop_hash = hash_bytes("v1")
    /\ max_memory_mb = MaxLimit
    /\ reload_attempted = FALSE
    /\ top_log = <<>>

\* the default policy: an entry for each monitored container
KnownIdle ==
    /\ has_worker_entry = TRUE
    /\ kill_unknown_workers = FALSE

\* a policy with or without entries for the monitored containers
KnownInit ==
    /\ has_worker_entry \in BOOLEAN
    /\ kill_unknown_workers \in BOOLEAN
    /\ has_worker_entry => ~kill_unknown_workers

\* an adapter nobody dispatches on
SessIdle ==
    /\ SessInit

SandboxIdle ==
    /\ sb_spec = "none"
    /\ sb_results = <<>>

Init == ExecInit /\ ChainInit /\ AttIdle /\ DispIdle /\ PlanIdle /\ CredIdle
        /\ PolicyIdle /\ GateIdle /\ WatchIdle /\ LogIdle /\ LoopIdle
        /\ KnownIdle /\ SessIdle /\ SandboxIdle
Next == ExecNext
Spec == Init /\ [][Next]_vars

\* the executor at rest: an empty graph, nothing to run
ExecIdle ==
    /\ tasks = {}
    /\ depends_on = [t \in TaskIds |-> {}]
    /\ status = [t \in TaskIds |-> "pending"]
    /\ results = [t \in TaskIds |-> "none"]
    /\ errors = [t \in TaskIds |-> "none"]
    /\ epc = "done"
    /\ ready_tasks = {}
    /\ tpc = [t \in TaskIds |-> "idle"]
    /\ rounds = 0
    /\ dispatched = [t \in TaskIds |-> 0]

InitChain == ExecIdle /\ ChainInit /\ AttIdle /\ DispIdle /\ PlanIdle
             /\ CredIdle /\ PolicyIdle /\ GateIdle /\ WatchIdle /\ LogIdle
             /\ LoopIdle /\ KnownIdle /\ SessIdle /\ SandboxIdle
\* the event loop keeps running what is runnable, and every awaited dispatch
\* or provider call returns
InitFair == Init /\ EdgeCount(depends_on, TaskIds) <= MaxFairEdges
            /\ KnownIdle
SpecFair == InitFair /\ [][Next]_vars /\ WF_vars(Next)

SpecChain == InitChain /\ [][ChainNext]_vars

InitAttest == ExecIdle /\ ChainInit /\ AttInit /\ DispIdle /\ PlanIdle
              /\ CredIdle /\ PolicyIdle /\ GateIdle /\ WatchIdle /\ LogIdle
              /\ LoopIdle /\ KnownIdle /\ SessIdle /\ SandboxIdle
SpecAttest == InitAttest /\ [][AttNext]_vars

InitDispatch == ExecIdle /\ ChainInit /\ AttIdle /\ DispInit /\ PlanIdle
                /\ CredIdle /\ PolicyIdle /\ GateIdle /\ WatchIdle
                /\ LogIdle /\ LoopIdle /\ KnownIdle /\ SessIdle
                /\ SandboxIdle
SpecDispatch == InitDispatch /\ [][DispNext]_vars

InitPlan == ExecIdle /\ ChainInit /\ AttIdle /\ DispIdle /\ PlanInit
            /\ CredIdle /\ PolicyIdle /\ GateIdle /\ WatchIdle /\ LogIdle
            /\ LoopIdle /\ KnownIdle /\ SessIdle /\ SandboxIdle
SpecPlan == InitPlan /\ [][PlanNext]_vars

InitCreds == ExecIdle /\ ChainInit /\ AttIdle /\ DispIdle /\ PlanIdle
             /\ CredInit /\ PolicyIdle /\ GateIdle /\ WatchIdle /\ LogIdle
             /\ LoopIdle /\ KnownIdle /\ SessIdle /\ SandboxIdle
SpecCreds == InitCreds /\ [][CredNext]_vars

InitPolicy == ExecIdle /\ ChainInit /\ AttIdle /\ DispIdle /\ PlanIdle
              /\ CredIdle /\ PolicyInit /\ GateIdle /\ WatchIdle /\ LogIdle
              /\ LoopIdle /\ KnownIdle /\ SessIdle /\ SandboxIdle
SpecPolicy == InitPolicy /\ [][PolicyNext]_vars

InitGate == ExecIdle /\ ChainInit /\ AttIdle /\ DispIdle /\ PlanIdle
            /\ CredIdle /\ PolicyIdle /\ GateInit /\ WatchIdle /\ LogIdle
            /\ LoopIdle /\ KnownIdle /\ SessIdle /\ SandboxIdle
SpecGate == InitGate /\ [][GateNext]_vars

InitWatch == ExecIdle /\ ChainInit /\ AttIdle /\ DispIdle /\ PlanIdle
             /\ CredIdle /\ PolicyIdle /\ GateIdle /\ WatchInit /\ LogIdle
             /\ LoopIdle /\ KnownInit /\ SessIdle /\ SandboxIdle
SpecWatch == InitWatch /\ [][WatchNext]_vars

\* the steps of the loop itself: one pass over a container, or the sleep
WatchLoopStep ==
    \/ WatchNotFound
    \/ WatchNotRunning
    \/ WatchNoStats
    \/ \E stats \in StatsSamples, kill_ok \in BOOLEAN : WatchChecked(stats, kill_ok)
    \/ WatchSleep
\* the loop is one thread that always goes on to its next statement, and the
\* Docker calls it makes return or raise
InitWatchFair == InitWatch /\ max_runtime_sec = MaxLimit /\ has_worker_entry
SpecWatchFair == InitWatchFair /\ [][WatchNext]_vars /\ WF_vars(WatchLoopStep)

InitLog == ExecIdle /\ ChainInit /\ AttIdle /\ DispIdle /\ PlanIdle
           /\ CredIdle /\ PolicyIdle /\ GateIdle /\ WatchIdle /\ LogInit
           /\ LoopIdle /\ KnownIdle /\ SessIdle /\ SandboxIdle
SpecLog == InitLog /\ [][LogNext]_vars

InitLoop == ExecIdle /\ ChainInit /\ AttIdle /\ DispIdle /\ PlanIdle
            /\ CredIdle /\ PolicyIdle /\ GateIdle /\ WatchInit
            /\ max_runtime_sec = MaxLimit /\ LogIdle /\ LoopInit
            /\ KnownIdle /\ SessIdle /\ SandboxIdle
SpecLoop == InitLoop /\ [][LoopNext]_vars

InitSession == ExecIdle /\ ChainInit /\ AttIdle /\ DispIdle /\ PlanIdle
               /\ CredIdle /\ PolicyIdle /\ GateIdle /\ WatchIdle /\ LogIdle
               /\ LoopIdle /\ KnownIdle /\ SessInit /\ SandboxIdle
SpecSession == InitSession /\ [][SessNext]_vars

InitMerkle == ExecIdle /\ ChainStart
              /\ merkle_interval \in 1..MaxMerkleInterval /\ AttIdle
              /\ DispIdle /\ PlanIdle /\ CredIdle /\ PolicyIdle /\ GateIdle
              /\ WatchIdle /\ LogIdle /\ LoopIdle /\ KnownIdle /\ SessIdle
              /\ SandboxIdle
SpecMerkle == InitMerkle /\ [][MerkleNext]_vars

InitVerify == ExecIdle /\ OpenedOnLog /\ AttIdle /\ DispIdle /\ PlanIdle
              /\ CredIdle /\ PolicyIdle /\ GateIdle /\ WatchIdle /\ LogIdle
              /\ LoopIdle /\ KnownIdle /\ SessIdle /\ SandboxIdle
SpecVerify == InitVerify /\ [][VerifyNext]_vars

InitSandbox == ExecIdle /\ ChainInit /\ AttIdle /\ DispIdle /\ PlanIdle
               /\ CredIdle /\ PolicyIdle /\ GateIdle /\ WatchIdle /\ LogIdle
               /\ LoopIdle /\ KnownIdle /\ SessIdle /\ SandboxInit
SpecSandbox == InitSandbox /\ [][SandboxNext]_vars

(***************************************************************************)
(* C1: during execute, on any task graph and for any dispatch outcomes, a  *)
(* task's status changes to "running" only in a state in which every task  *)
(* id listed in its depends_on is the id of a task with status             *)
(* "completed".                                                            *)
(***************************************************************************)
C1_RunsOnlyAfterUpstreams ==
    [][\A t \in TaskIds :
         (status[t] # "running" /\ status'[t] = "running")
            => \A dep \in depends_on[t] :
                  dep \in tasks /\ status[dep] = "completed"]_vars

\* a task with an upstream is running beside a completed upstream
C1_Witness ==
    \E t \in tasks : /\ status[t] = "running"
                     /\ depends_on[t] # {}
                     /\ \A dep \in depends_on[t] : dep \in tasks /\ status[dep] = "completed"

\* record n's prev_hash is record n-1's hash, record 0's the genesis hash
ChainLinked(log) ==
    \A n \in 1..Len(log) :
        log[n]["prev_hash"] = IF n = 1 THEN GENESIS_HASH ELSE log[n - 1]["hash"]

\* sequence numbers run 0, 1, 2, ...
SeqContiguous(log) == \A n \in 1..Len(log) : log[n]["seq"] = n - 1

(***************************************************************************)
(* C2: for appends whose disk writes all succeed, interleaved with process *)
(* restarts, the log on disk is linked from the genesis hash, its sequence *)
(* numbers run 0,1,2,... and verify() returns (True, None).                *)
(***************************************************************************)
C2_ChainValidAfterAppends ==
    (tamper = NoTamper /\ ~write_failed)
        => /\ ChainLinked(file)
           /\ SeqContiguous(file)
           /\ Verify(file) = VerifyResult(TRUE, NoSeq)

(***************************************************************************)
(* C3: in a log produced by appends (and verifying before the edit),       *)
(* changing the value of any single field of any single record makes       *)
(* verify() return (False, k) with k at most the original sequence number  *)
(* of the edited record.                                                   *)
(***************************************************************************)
C3_AnyEditDetected ==
    (tamper # NoTamper /\ tamper.intact)
        => /\ ~Verify(file).valid
           /\ Verify(file).broken_at <= tamper.seq

(***************************************************************************)
(* C4: in a log produced by at least two appends, rewriting only the event *)
(* field of the record with sequence number s makes verify() return        *)
(* (False, s).                                                             *)
(***************************************************************************)
C4_EventEditReportsItsSeq ==
    (tamper # NoTamper /\ tamper.field = "event" /\ appends >= 2 /\ ~write_failed)
        => Verify(file) = VerifyResult(FALSE, tamper.seq)

\* C5: for each nonce at most one verify call returns (True, "ok"), and a
\* verify call is never valid for a nonce already marked used or whose
\* expiry time has passed.
C5_NonceValidAtMostOnce ==
    /\ \A n \in Nonces : ok_count[n] <= 1
    /\ last_verify.valid =>
          /\ last_verify.reason = "ok"
          /\ ~last_verify.was_used
          /\ ~last_verify.late

\* a replay of a nonce that was accepted once has just been turned down
C5_Witness ==
    /\ last_verify.nonce \in Nonces
    /\ ok_count[last_verify.nonce] = 1
    /\ ~last_verify.valid
    /\ last_verify.reason \in {"nonce_already_used", "nonce_expired"}

\* C6 as stated: a second verify of an accepted nonce, by the same worker
\* with the same signature, returns (False, "nonce_already_used") whatever
\* time has passed.
C6_ReplayAlwaysAlreadyUsed ==
    last_verify.repeat =>
        /\ ~last_verify.valid
        /\ last_verify.reason = "nonce_already_used"

\* C6: a second verify of an accepted nonce, by the same worker with the
\* same signature, is never valid; it returns "nonce_already_used" while
\* the expiry time has not passed and the worker was not revoked, after the
\* expiry time "nonce_expired" or "nonce_not_found", and after a revocation
\* "nonce_not_found".
C6_ReplayRejected ==
    last_verify.repeat =>
        /\ ~last_verify.valid
        /\ (~last_verify.late /\ ~last_verify.after_revoke)
              => last_verify.reason = "nonce_already_used"
        /\ last_verify.late
              => last_verify.reason \in {"nonce_expired", "nonce_not_found"}
        /\ last_verify.after_revoke
              => last_verify.reason = "nonce_not_found"

\* a replay made in time, answered "nonce_already_used"
C6_Witness ==
    /\ last_verify.repeat
    /\ ~last_verify.late
    /\ last_verify.reason = "nonce_already_used"

\* a replay made after the expiry time, answered "nonce_expired"
C6_LateReplay ==
    /\ last_verify.repeat
    /\ last_verify.late
    /\ last_verify.reason = "nonce_expired"

\* C7: a dispatch call whose credentials are older than the TTL raises
\* CredentialExpiredError with no send and no session created, and changes
\* the adapter only by appending one credential_expired audit entry.
C7_ExpiredCredentialsRefused ==
    [][(calls' = calls + 1 /\ req_age' > credential_max_age) =>
          /\ outcome' = "CredentialExpiredError"
          /\ dpc' = "idle"
          /\ net_sends' = net_sends
          /\ session' = session
          /\ max_retries' = max_retries
          /\ LET entry == [event |-> "credential_expired", attempt |-> 0,
                           status |-> "none"]
             IN audit_entries' =
                    IF Len(audit_entries) < audit_max_size
                        THEN Append(audit_entries, entry)
                        ELSE Append(Tail(audit_entries), entry)]_vars

\* a call with expired credentials was refused on an adapter that had
\* sent before
C7_Witness ==
    /\ outcome = "CredentialExpiredError"
    /\ req_age > credential_max_age
    /\ net_sends > 0

\* C8: a send that returns a rejected response ends the call at once with
\* the rejection: a task_rejected audit entry, no backoff wait, no further
\* attempt, however many retries remain.
C8_RejectionNotRetried ==
    [][/\ \A i \in 1..Len(attempt_events) :
             attempt_events[i] = "rejected" =>
                 (i = Len(attempt_events) /\ dpc = "idle")
       /\ (Len(attempt_events') = Len(attempt_events) + 1
             /\ attempt_events'[Len(attempt_events')] = "rejected") =>
              /\ outcome' = "OpenClawRejectedError"
              /\ dpc' = "idle"
              /\ waits' = waits
              /\ audit_entries'[Len(audit_entries')].event = "task_rejected"]_vars

\* a rejection on the second attempt, with a retry still left
C8_Witness ==
    /\ outcome = "OpenClawRejectedError"
    /\ Len(attempt_events) = 2
    /\ attempt_events[2] = "rejected"
    /\ max_retries > 2

\* the send events that are connection failures
ConnectionEvents == {"connect_error", "handshake_error"}

\* C9 as stated: never more than max_retries attempts; when every attempt
\* fails with a connection error there are exactly max_retries attempts,
\* the k-th wait is backoff_base * 2^(k-1), none after the last attempt,
\* and a connection error is raised.
C9_RetriesThenConnectionError ==
    /\ Len(attempt_events) <= max_retries
    /\ (/\ dpc = "idle"
        /\ outcome \notin {"none", "CredentialExpiredError"}
        /\ \A i \in 1..Len(attempt_events) : attempt_events[i] \in ConnectionEvents)
          => /\ Len(attempt_events) = max_retries
             /\ Len(waits) = max_retries - 1
             /\ \A k \in 1..Len(waits) :
                   waits[k] = retry_backoff_base(adapter) * 2^(k - 1)
             /\ outcome = "OpenClawConnectionError"

\* C10 as stated: a timed-out attempt is retried, the timeout failure is
\* raised only after the final attempt.
C10_TimeoutRetried ==
    (/\ dpc = "idle"
     /\ Len(attempt_events) > 0
     /\ attempt_events[Len(attempt_events)] = "timeout")
        => Len(attempt_events) = max_retries

\* C10: a send that times out ends the call at once: a dispatch_timeout
\* audit entry, OpenClawTimeoutError raised, no backoff wait and no further
\* attempt, however many retries remain.
C10_TimeoutNotRetried ==
    [][/\ \A i \in 1..Len(attempt_events) :
             attempt_events[i] = "timeout" =>
                 (i = Len(attempt_events) /\ dpc = "idle")
       /\ (Len(attempt_events') = Len(attempt_events) + 1
             /\ attempt_events'[Len(attempt_events')] = "timeout") =>
              /\ outcome' = "OpenClawTimeoutError"
              /\ dpc' = "idle"
              /\ waits' = waits
              /\ audit_entries'[Len(audit_entries')].event = "dispatch_timeout"]_vars

\* a timeout on the first attempt, with retries still left
C10_Witness ==
    /\ outcome = "OpenClawTimeoutError"
    /\ Len(attempt_events) = 1
    /\ max_retries > 1

\* the ids of a task list, and the dependencies named by the task with an id
IdsOf(task_list) == {task_list[i].task_id : i \in 1..Len(task_list)}
DepsOf(task_list, id) ==
    UNION {{task_list[i].depends_on[k] : k \in 1..Len(task_list[i].depends_on)} :
              i \in {j \in 1..Len(task_list) : task_list[j].task_id = id}}

RECURSIVE UpstreamsWithin(_, _, _)
\* what is reached from the ids of S along at most k dependency edges
UpstreamsWithin(task_list, S, k) ==
    IF k = 0 THEN S
    ELSE UpstreamsWithin(task_list,
                         S \cup UNION {DepsOf(task_list, x) : x \in S}, k - 1)

\* the transitive upstreams of a task
TransitiveUpstreams(task_list, id) ==
    UpstreamsWithin(task_list, DepsOf(task_list, id), Len(task_list))

HasMissingUpstream(task_list) ==
    \E id \in IdsOf(task_list) : ~(DepsOf(task_list, id) \subseteq IdsOf(task_list))
HasCycle(task_list) ==
    \E id \in IdsOf(task_list) : id \in TransitiveUpstreams(task_list, id)

\* decompose() has returned a list built from a well-formed model answer
DecomposedFromList ==
    /\ plan_pc \in {"planned", "executing"}
    /\ tasks_data.shape = "list"
    /\ \A i \in 1..Len(Clamped(tasks_data.items, max_tasks_per_request)) :
          tasks_data.items[i].well_formed
    /\ Clamped(tasks_data.items, max_tasks_per_request) # <<>>

\* C11: every list decompose returns names only upstreams that are in the
\* list and has no self-dependency and no cycle; _validate_graph reports an
\* error exactly for the lists with a missing upstream or a cycle, and such
\* a list is replaced by the single fallback task task-0 without dependencies.
C11_ReturnedGraphIsValid ==
    /\ ~HasMissingUpstream(planned_tasks)
    /\ ~HasCycle(planned_tasks)
    /\ \A i \in 1..Len(planned_tasks) :
          planned_tasks[i].task_id \notin DepsOf(planned_tasks, planned_tasks[i].task_id)
    /\ DecomposedFromList =>
          LET built == BuiltTasks(tasks_data.items, max_tasks_per_request)
              bad == HasMissingUpstream(built) \/ HasCycle(built)
          IN /\ (validate_graph(built) # "none") <=> bad
             /\ bad => planned_tasks = <<[task_id |-> 0, depends_on |-> <<>>]>>
             /\ ~bad => planned_tasks = built

\* a model answer with a cycle over two or more tasks, and no missing
\* upstream, was replaced by the fallback task
C11_Witness ==
    /\ DecomposedFromList
    /\ LET built == BuiltTasks(tasks_data.items, max_tasks_per_request)
       IN /\ HasCycle(built)
          /\ ~HasMissingUpstream(built)
          /\ \A id \in IdsOf(built) : id \notin DepsOf(built, id)
    /\ planned_tasks = <<FallbackTask>>

RECURSIVE UpstreamClosure(_, _)
\* the ids reached from S along at most k dependency edges of the graph
UpstreamClosure(S, k) ==
    IF k = 0 THEN S
    ELSE UpstreamClosure(S \cup UNION {depends_on[u] : u \in S \cap tasks}, k - 1)

\* the transitive upstreams of task t, missing ids included
Upstreams(t) == UpstreamClosure(depends_on[t], MaxTasks)

\* t was failed as blocked, its coroutine never started, nothing dispatched
EndedBlocked(t) ==
    /\ status[t] = "failed"
    /\ errors[t] = "Blocked: dependency failed or missing"
    /\ tpc[t] = "idle"
    /\ dispatched[t] = 0

\* t ran its own coroutine to the end and carries that outcome
EndedOnOwnOutcome(t) ==
    /\ tpc[t] = "finished"
    /\ status[t] \in {"completed", "failed"}
    /\ errors[t] # "Blocked: dependency failed or missing"

\* a running task leaves "running" only by a step of its own coroutine
NotCancelled ==
    \A t \in tasks :
        (status[t] = "running" /\ status'[t] # "running") =>
            /\ tpc[t] \in {"context", "dispatching", "llm"}
            /\ tpc'[t] = "finished"
            /\ status'[t] \in {"completed", "failed"}
            /\ errors'[t] # "Blocked: dependency failed or missing"

\* C12 as stated: on return exactly the tasks with a failed transitive
\* upstream ended blocked and undispatched, every other task ended on its
\* own outcome, and no running task is cancelled.
C12_BlockedIffUpstreamFailed ==
    [][/\ NotCancelled
       /\ epc' = "done" =>
            \A t \in tasks :
                LET failed_up == \E u \in Upstreams(t) \cap tasks : status'[u] = "failed"
                IN IF failed_up THEN EndedBlocked(t)'
                   ELSE EndedOnOwnOutcome(t)']_vars

\* C12: on return exactly the tasks with a transitive upstream that failed
\* or is missing from the graph ended blocked and undispatched, every other
\* task ended completed or failed on its own outcome, and no running task
\* is cancelled when a sibling fails.
C12_BlockedIffUpstreamFailedOrMissing ==
    [][/\ NotCancelled
       /\ epc' = "done" =>
            \A t \in tasks :
                LET bad_up == \E u \in Upstreams(t) :
                                  u \notin tasks \/ status'[u] = "failed"
                IN IF bad_up THEN EndedBlocked(t)'
                   ELSE EndedOnOwnOutcome(t)']_vars

\* on return: a task failed in its dispatch, its dependent ended blocked,
\* and an unrelated task completed
C12_Witness ==
    /\ epc = "done"
    /\ \E a, b, c \in tasks :
          /\ status[a] = "failed" /\ dispatched[a] = 1
          /\ a \in depends_on[b] /\ EndedBlocked(b)
          /\ depends_on[c] = {} /\ status[c] = "completed"

\* C13: execute() terminates on every graph and every mix of dispatch
\* outcomes: the main loop runs at most one round per task, the call
\* returns, and on return no task is pending or running.
C13_ExecuteTerminates ==
    /\ [](rounds <= Cardinality(tasks))
    /\ [](epc = "done" => \A t \in tasks : status[t] \in {"completed", "failed"})
    /\ <>(epc = "done")

\* execute() returned after one round per task, on a graph of several tasks
C13_Witness ==
    /\ epc = "done"
    /\ Cardinality(tasks) >= 2
    /\ rounds = Cardinality(tasks)

\* C14: when execute() returns, the keys of results are exactly the completed
\* tasks and the keys of errors exactly the failed ones, the two key sets are
\* disjoint and cover every task, tasks_completed + tasks_failed is the number
\* of tasks, and success holds exactly when no task failed and one completed.
C14_ResultMatchesStatuses ==
    epc = "done" =>
        /\ ResultsKeys = {t \in tasks : status[t] = "completed"}
        /\ ErrorsKeys = {t \in tasks : status[t] = "failed"}
        /\ ResultsKeys \cap ErrorsKeys = {}
        /\ ResultsKeys \cup ErrorsKeys = tasks
        /\ tasks_completed + tasks_failed = Cardinality(tasks)
        /\ success <=> /\ \A t \in tasks : status[t] # "failed"
                       /\ \E t \in tasks : status[t] = "completed"

\* execute() returned with a task completed by the provider fallback, a task
\* failed on its own dispatch and a task failed as blocked
C14_Witness ==
    /\ epc = "done"
    /\ \E t \in tasks : results[t] = "direct_llm"
    /\ \E t \in tasks : errors[t] \in DispatchErrors
    /\ \E t \in tasks : errors[t] = BlockedError
    /\ ~success

\* C15: every request the executor dispatches carries credentials issued at
\* the time of that dispatch, so with a TTL above zero no dispatch is
\* refused as expired, however old the executor's own credentials are and
\* however long the earlier tasks took.
C15_FreshCredentialsNeverExpired ==
    /\ cred_pc = "built" => req_issued_at = dispatch_at
    /\ cred_ttl > 0 => cred_outcome # "CredentialExpiredError"

\* a second or later request went out although the executor's own
\* credentials are older than the TTL
C15_Witness ==
    /\ cred_ttl > 0
    /\ cred_outcome = "sent"
    /\ cred_pc = "idle"
    /\ cred_dispatches >= 2
    /\ wall_clock - exec_issued_at > cred_ttl * TicksPerSecond

\* C16: a reload() on a policy file whose bytes are those of the last
\* successful load returns False and leaves the document, the load counter
\* and the fingerprint as they are, however often it is repeated.
C16_UnchangedReloadIsNoOp ==
    [][(/\ ppc = "idle"
        /\ reloads' = reloads + 1
        /\ loaded_raw # NoBytes
        /\ policy_file = loaded_raw)
       => /\ ppc' = "idle"
          /\ reload_outcome' # "loaded"
          /\ UNCHANGED <<policy, load_count, policy_hash, policy_events>>]_vars

\* the watchdog loop reloaded a changed file, and reload() then found the
\* file unchanged twice in a row
C16_Witness ==
    /\ unchanged_run >= 2
    /\ Len(policy_events) >= 1
    /\ policy_file = loaded_raw

C18_NoDecompositionWhenGated ==
    (/\ intent # NoIntent
     /\ \/ intent.intent_type = "chitchat"
        \/ intent.needs_clarification
        \/ intent.confidence < ambiguity_threshold)
    => /\ decomp_requests = 0
       /\ planned_tasks = <<>>
       /\ plan_pc \in {"planned", "returned"}
       /\ plan_result = IF intent.intent_type = "chitchat" THEN "chitchat"
                        ELSE "clarification"

\* plan_and_execute() returned a clarification result for an intent that
\* did not ask for clarification and whose confidence is under the threshold
C18_Witness ==
    /\ plan_pc = "returned"
    /\ plan_result = "clarification"
    /\ ~intent.needs_clarification
    /\ intent.confidence < ambiguity_threshold

\* C19: no task is dispatched to an executor whose policy entry requires
\* attestation before that executor has a successful nonce verification,
\* and a missing or failed attestation gives a kill-severity violation.
C19_NoDispatchBeforeAttestation ==
    [][\A e \in Executors :
          /\ task_dispatches'[e] > task_dispatches[e]
                => (~requires_attestation(e) \/ attestation[e] = "verified")
          /\ (e \in gate_checked' \ gate_checked /\ requires_attestation(e)
                /\ attestation[e] # "verified")
                => e \in gate_violations']_vars

\* C20: a running monitored container whose elapsed runtime exceeds the
\* max_runtime_sec of its policy entry gets a kill-severity max_runtime_sec
\* violation at the next pass of the watchdog loop over it and, with
\* kill_on_violation set, is killed in that pass.
C20_RuntimeExceededIsKilled ==
    [][(/\ wpc <= Len(MONITORED_CONTAINERS)
        /\ wpc' = wpc + 1
        /\ watch_outcome' = "checked"
        /\ elapsed[Current] > max_runtime_sec)
       => /\ \E i \in DOMAIN tick_log' :
                tick_log'[i] = Record("POLICY_VIOLATION", "max_runtime_sec")
          /\ kill_on_violation
                => \E i \in DOMAIN tick_log' :
                      tick_log'[i].event = "KILL_TRIGGERED"]_vars

\* C21: every KILL_TRIGGERED record is followed at once by exactly one
\* KILL_COMPLETED or KILL_FAILED record of the same pass, and after a
\* KILL_FAILED the loop goes on: the other containers of the tick and the
\* later ticks are still handled.
KillOutcomes == {"KILL_COMPLETED", "KILL_FAILED"}
KillFailedInPass == \E i \in DOMAIN tick_log : tick_log[i].event = "KILL_FAILED"
C21_KillTriggeredThenOutcome ==
    /\ [](\A i \in DOMAIN tick_log :
            /\ tick_log[i].event = "KILL_TRIGGERED"
                  => (i < Len(tick_log) /\ tick_log[i + 1].event \in KillOutcomes)
            /\ tick_log[i].event \in KillOutcomes
                  => (i > 1 /\ tick_log[i - 1].event = "KILL_TRIGGERED"))
    /\ (KillFailedInPass /\ wpc <= Len(MONITORED_CONTAINERS))
            ~> (wpc > Len(MONITORED_CONTAINERS))
    /\ KillFailedInPass ~> (wpc = 1)
    /\ []<>(wpc = 1)
    /\ []<>(wpc > Len(MONITORED_CONTAINERS))

\* the kill of the first container of a tick failed and was audited; the
\* second container is about to be handled
C21_Witness ==
    /\ wpc = 2
    /\ Len(tick_log) >= 2
    /\ tick_log[Len(tick_log) - 1].event = "KILL_TRIGGERED"
    /\ tick_log[Len(tick_log)].event = "KILL_FAILED"


(***************************************************************************)
(* C22: after any sequence of append and flush calls on a BoundedAuditLog  *)
(* of size max_size, the log never holds more than max_size entries; an    *)
(* append to a full log drops exactly the oldest entry and adds one to the *)
(* overflow counter, so that the counter equals the number of entries      *)
(* dropped since the last flush; flush returns the entries it held, in     *)
(* insertion order, leaves the log empty and the counter at 0.             *)
(***************************************************************************)
InInsertionOrder(entries) ==
    \A i, j \in DOMAIN entries : i < j => entries[i] < entries[j]

C23_CallbackReceivesEveryEntry ==
    on_flush => log_delivered \o log_entries = [i \in 1..log_appended |-> i]

(***************************************************************************)
(* C24: a verify call made at the instant that equals the nonce's expiry   *)
(* timestamp (issue time + TTL) is refused: it is never valid, whatever    *)
(* worker and signature it presents and whether or not the nonce was used. *)
(***************************************************************************)
C24_VerifyAtExpiryIsRefused ==
    [][\A nonce \in Nonces :
          (/\ last_verify' # last_verify
           /\ last_verify'.nonce = nonce
           /\ expiry_of[nonce] >= 0
           /\ now = expiry_of[nonce])
             => ~last_verify'.valid]_vars

(***************************************************************************)
(* C25: decompose never returns more than max_tasks_per_request tasks.  A  *)
(* model answer of exactly max_tasks_per_request well-formed tasks that    *)
(* form a valid graph is returned in full.  An answer with one more task   *)
(* is cut to its first max_tasks_per_request tasks, and these are returned *)
(* when they still form a valid graph on their own; when one of them       *)
(* depends on the task that was cut off, the single fallback task is       *)
(* returned instead.                                                       *)
(***************************************************************************)
\* the model answered with a list of n items, all well-formed, that is a
\* valid graph as a whole, and decompose has returned
AnsweredValidList(n) ==
    /\ plan_pc \in {"planned", "executing"}
    /\ ~(intent.intent_type = "chitchat" \/ intent.needs_clarification)
    /\ tasks_data.shape = "list"
    /\ Len(tasks_data.items) = n
    /\ \A i \in 1..n : tasks_data.items[i].well_formed
    /\ validate_graph(BuiltTasks(tasks_data.items, n)) = "none"

\* the first max_tasks_per_request items of the answer, as PlannedTasks
FirstMaxTasks ==
    [i \in 1..max_tasks_per_request |->
        PlannedTask(i - 1, tasks_data.items[i].depends_on)]

HasRecord(records, event) == \E i \in DOMAIN records : records[i].event = event

KillsTriggered(records) ==
    Cardinality({i \in DOMAIN records : records[i].event = "KILL_TRIGGERED"})

C27_AtMostOneKillPerPass == KillsTriggered(tick_log) <= 1

(***************************************************************************)
(* C28: the watchdog kills a container for CPU only in a pass that samples *)
(* CPU above the ceiling with the container's counter at 2, the third      *)
(* high sample counted in a row, which takes the counter to 3.  A sample   *)
(* at or below the ceiling leaves the counter at 0, a pass that kills the  *)
(* container leaves it at 0, any other high sample adds one, and after     *)
(* every pass the counter of every container is within 0..2.               *)
(***************************************************************************)
\* the pass killed for CPU: a kill that is neither the policy's nor the
\* memory check's
CpuKillIn(stats, kill_ok, records) ==
    KillsTriggered(records)
        > KillsTriggered(ViolationRecords(check(stats, DefaultRuntimeSeconds),
                                          1, kill_ok))
          + (IF stats.memory_mb > WorkerLimits.max_memory_mb THEN 1 ELSE 0)

C28_CpuKillOnThirdHighSample ==
    /\ [](\A c \in Containers : consecutive_high_cpu[c] \in 0..2)
    /\ [][\A stats \in StatsSamples, kill_ok \in BOOLEAN :
            (wpc' = wpc + 1 /\ WatchChecked(stats, kill_ok))
              => LET c == Current
                     before == consecutive_high_cpu[c]
                     after == consecutive_high_cpu'[c]
                     high == stats.cpu_percent > WorkerLimits.max_cpu_pct
                     killed == HasRecord(tick_log', "KILL_TRIGGERED")
                 IN /\ CpuKillIn(stats, kill_ok, tick_log')
                          => (high /\ before + 1 = 3 /\ after = 0)
                    /\ ~high => after = 0
                    /\ killed => after = 0
                    /\ (high /\ ~killed) => after = before + 1
                    /\ \A d \in Containers \ {c} :
                          consecutive_high_cpu'[d] = consecutive_high_cpu[d]]_vars

(***************************************************************************)
(* C29: with kill_on_violation false, a pass over a running container      *)
(* whose memory exceeds the ceiling of its policy entry appends            *)
(* POLICY_VIOLATION for max_memory_mb and no KILL_TRIGGERED.               *)
(***************************************************************************)
C29_NoKillWhenFlagIsFalse ==
    (/\ ~kill_on_violation
     /\ \E i \in DOMAIN tick_log :
           tick_log[i] = Record("POLICY_VIOLATION", "max_memory_mb"))
        => ~HasRecord(tick_log, "KILL_TRIGGERED")

(***************************************************************************)
(* C30: in each round of execute, every task that was ready at the start   *)
(* of the round is set to running before any suspended task of the round   *)
(* resumes, and at that point every task of the round that has no upstream *)
(* result to summarise, and whose request was built, has its dispatch      *)
(* issued; a task with upstream results dispatches only after its          *)
(* dependency context is built, which may be after another task of the     *)
(* round has finished.  No task outside the round starts, and no new round *)
(* begins, until every task of the round is completed or failed.           *)
(***************************************************************************)
Suspended(t) == tpc[t] \in {"context", "dispatching", "llm"}

\* a task of the round takes a step after a suspension
Resumes(t) == t \in ready_tasks /\ Suspended(t) /\ tpc'[t] # tpc[t]

\* a task of the round ends
Finishes(t) == t \in ready_tasks /\ tpc[t] # "finished" /\ tpc'[t] = "finished"

RoundGatesNextRound ==
    /\ \A t \in tasks :
          (status[t] = "pending" /\ status'[t] # "pending" /\ epc' # "done")
              => (epc = "gather" /\ t \in ready_tasks)
    /\ ready_tasks' # ready_tasks
          => /\ \A t \in ready_tasks : status[t] \in {"completed", "failed"}
             /\ ready_tasks' = GetReadyTasks
    /\ \A t \in tasks : (status[t] = "running" \/ Suspended(t)) => t \in ready_tasks

C30_RoundStartsTogether ==
    [][/\ \A t \in tasks :
            Resumes(t)
              => \A u \in ready_tasks :
                    /\ status[u] # "pending"
                    /\ \/ dispatched[u] >= 1
                       \/ tpc[u] = "context"
                       \/ (status[u] = "failed" /\ errors[u] = "validation")
       /\ RoundGatesNextRound]_vars

\* in a round of two tasks one has completed while the other, still
\* building its dependency context, has not been dispatched
C30_Witness ==
    /\ epc = "gather"
    /\ \E t, u \in ready_tasks :
          /\ status[t] = "completed"
          /\ tpc[t] = "finished"
          /\ status[u] = "running"
          /\ tpc[u] = "context"
          /\ dispatched[u] = 0

\* C30 as stated: no task of a round finishes before every task of the round
\* is running with its dispatch issued, and the round gates the next one
C30_AllDispatchedBeforeAnyFinishes ==
    [][/\ \A t \in tasks :
            Finishes(t)
              => \A u \in ready_tasks :
                    (u # t => status[u] # "pending") /\ dispatched'[u] >= 1
       /\ RoundGatesNextRound]_vars

\* C31: concurrent dispatch calls on one adapter never have two client
\* sessions open at once: a session is constructed only when every session
\* constructed before it has been closed, every call that holds a session
\* still open holds the adapter's current one, and as long as close() has
\* not been called a single session serves every call.
OpenSessions == {s \in 1..sess_created : s \notin sess_closed}

C31_OneSessionUntilClosed ==
    /\ Cardinality(OpenSessions) <= 1
    /\ \A c \in Callers :
          cpc[c] = "posting" /\ held[c] \notin sess_closed
              => held[c] = sess_current
    /\ closes = 0 =>
          /\ sess_created <= 1
          /\ \A c \in Callers : cpc[c] = "posting" => held[c] = 1

\* two callers waited for the lock while close() held it, and both now use
\* the second session, the first being closed
C31_Witness ==
    /\ sess_created = 2
    /\ 1 \in sess_closed
    /\ \E c1, c2 \in Callers :
          /\ c1 # c2
          /\ cpc[c1] = "posting" /\ cpc[c2] = "posting"
          /\ held[c1] = 2 /\ held[c2] = 2

\* C32: with merkle_interval N (N >= 1), within one process, append emits a
\* window record exactly when the appends since the last window record
\* reach N; that record has event_count = N; every window record covers
\* last_seq - first_seq + 1 = event_count records, its root is the root of
\* the duplicate-last-node tree over the hashes of the records first_seq
\* to last_seq in order, consecutive window records cover adjacent windows,
\* and emitting one leaves the chain head and the next sequence number as
\* the append alone leaves them (a forced flush leaves them unchanged).
SinceLastCheckpoint ==
    Cardinality({q \in DOMAIN hash_of_seq :
                    emitted = <<>> \/ q > emitted[Len(emitted)]["last_seq"]})

\* the duplicate-last-node tree over one to four leaves, written out
TreeRoot(h) ==
    CASE Len(h) = 1 -> h[1]
      [] Len(h) = 2 -> Hash([left |-> h[1], right |-> h[2]])
      [] Len(h) = 3 -> Hash([left |-> Hash([left |-> h[1], right |-> h[2]]),
                             right |-> Hash([left |-> h[3], right |-> h[3]])])
      [] Len(h) = 4 -> Hash([left |-> Hash([left |-> h[1], right |-> h[2]]),
                             right |-> Hash([left |-> h[3], right |-> h[4]])])
      [] OTHER -> merkle_root(h)

C32_CheckpointEveryNAppends ==
    [][/\ appends' = appends + 1 =>
             /\ (Len(emitted') = Len(emitted) + 1)
                    <=> (SinceLastCheckpoint + 1 = merkle_interval)
             /\ Len(emitted') \in {Len(emitted), Len(emitted) + 1}
             /\ Len(emitted') = Len(emitted) + 1 =>
                    emitted'[Len(emitted')]["event_count"] = merkle_interval
             /\ chain_seq' = chain_seq + 1
             /\ chain_prev_hash' = hash_of_seq'[chain_seq]
       /\ (appends' = appends /\ Len(emitted') = Len(emitted) + 1) =>
             /\ chain_seq' = chain_seq
             /\ chain_prev_hash' = chain_prev_hash
             /\ file' = file
       /\ \A i \in 1..Len(emitted') :
             LET c == emitted'[i]
             IN /\ c["event_count"] >= 1
                /\ c["last_seq"] - c["first_seq"] + 1 = c["event_count"]
                /\ c["last_seq"] < chain_seq'
                /\ c["merkle_root"] =
                      TreeRoot([k \in 1..c["event_count"] |->
                                   hash_of_seq'[c["first_seq"] + k - 1]])
                /\ i > 1 => c["first_seq"] = emitted'[i - 1]["last_seq"] + 1
      ]_vars

\* three appends with N = 3: one window record over the records 0..2, its
\* root that of a three-leaf tree
C32_Witness ==
    /\ merkle_interval = 3
    /\ Len(emitted) = 1
    /\ emitted[1]["event_count"] = 3
    /\ emitted[1]["first_seq"] = 0 /\ emitted[1]["last_seq"] = 2
    /\ chain_seq = 3
    /\ window_hashes = <<>>

\* C33: once the disk write of an append has failed, any later append that
\* is written to the log, by the same process or after a restart, leaves a
\* log that verify() reports as invalid.
C33_MissingRecordDetected ==
    [][(/\ write_failed
        /\ appends' = appends + 1
        /\ Len(file') = Len(file) + 1) => ~Verify(file').valid]_vars

\* C34: for a log in which every record's hash and prev_hash are consistent
\* but whose sequence numbers are not 0,1,2,..., verify() returns (False, k)
\* with k the first out-of-sequence record (its position or its seq).
HashesAndLinksHold(log) ==
    \A i \in 1..Len(log) :
        /\ ~IsMalformed(log[i])
        /\ log[i]["prev_hash"] = (IF i = 1 THEN GENESIS_HASH ELSE log[i - 1]["hash"])
        /\ log[i]["hash"] =
              hash_record(Pop(Pop(Pop(log[i], "hash"), "prev_hash"), "algo"),
                          log[i]["prev_hash"])

OutOfSequence(log) == {i \in 1..Len(log) : log[i]["seq"] # i - 1}

FirstOutOfSequence(log) ==
    CHOOSE i \in OutOfSequence(log) : \A j \in OutOfSequence(log) : i <= j

C34_VerifyChecksContiguity ==
    (HashesAndLinksHold(file) /\ OutOfSequence(file) # {}) =>
        /\ ~Verify(file).valid
        /\ Verify(file).broken_at \in
              {FirstOutOfSequence(file) - 1, file[FirstOutOfSequence(file)]["seq"]}

\* C35: an AuditChain opened on a log whose last line is malformed resumes
\* from the genesis hash with sequence number 0, and the opening records
\* the restart as an audit event of its own in the log.
C35_MalformedTailRestartRecorded ==
    [][(/\ ChainRestart
        /\ file # <<>>
        /\ IsMalformed(file[Len(file)]))
          => /\ chain_prev_hash' = GENESIS_HASH
             /\ chain_seq' = 0
             /\ Len(file') > Len(file)]_vars

\* C36: verify reports the first failing check in the order nonce_not_found,
\* nonce_worker_mismatch, nonce_expired, nonce_already_used,
\* signature_mismatch, whichever other checks fail as well; only when all
\* five pass is the nonce marked used and (True, "ok") returned; and every
\* verify call appends exactly one log entry, ATTESTATION_OK or
\* ATTESTATION_FAILED with that reason.  (A verify step fixes its nonce,
\* kept in last_verify, and the time it ends at, the new value of now.)
CheckOrder ==
    <<"nonce_not_found", "nonce_worker_mismatch", "nonce_expired",
      "nonce_already_used", "signature_mismatch">>

\* the checks that fail for this call, each taken on its own
FailingChecks(worker_id, nonce, signature) ==
    IF nonce \notin DOMAIN issued THEN {1}
    ELSE {k \in 2..5 :
            \/ k = 2 /\ issued[nonce].worker_id # worker_id
            \/ k = 3 /\ now > issued[nonce].expires_at
            \/ k = 4 /\ issued[nonce].used
            \/ k = 5 /\ signature #
                          compute_signature(nonce, Get(known_workers, worker_id, ""))}

\* what verify(w, n, sig) has to leave behind: the reason of the lowest
\* failing check, one log entry with it, the used flag set only on success
FirstFailingReported(w, n, sig) ==
    LET failing == FailingChecks(w, n, sig)
        first == CHOOSE k \in failing : \A j \in failing : k <= j
    IN /\ last_verify'.logged = 1
       /\ IF failing = {}
             THEN /\ last_verify'.valid /\ last_verify'.reason = "ok"
                  /\ att_last' = LogEntry("ATTESTATION_OK", w, "none")
                  /\ n \in DOMAIN issued' => issued'[n].used
             ELSE /\ ~last_verify'.valid
                  /\ last_verify'.reason = CheckOrder[first]
                  /\ att_last' = LogEntry("ATTESTATION_FAILED", w,
                                          CheckOrder[first])
                  /\ n \in DOMAIN issued' =>
                        issued'[n].used = issued[n].used

\* the workers the entry just logged can be about
LoggedWorkers ==
    {w \in WorkerNames : (w \in DOMAIN known_workers) = att_last'.known}

C37_NoFallbackAfterResponse ==
    [][\A t \in TaskIds : ~DispatchUnavailable(t, "response")]_vars

\* C38: during one execute call a task's status only moves forward, pending
\* to running to completed or failed, or pending to failed when the task is
\* blocked; a completed or failed task keeps its status; and each task is
\* handed to adapter.dispatch at most once, whatever the dispatches return.
\* (A task whose request cannot be built is set running and failed in one
\* step of its coroutine, nothing being awaited in between.)
ForwardSteps ==
    {<<"pending", "running">>, <<"running", "completed">>,
     <<"running", "failed">>, <<"pending", "failed">>}

C38_StatusForwardDispatchedOnce ==
    [][\A t \in TaskIds :
          /\ status'[t] # status[t] =>
                /\ <<status[t], status'[t]>> \in ForwardSteps
                /\ (status[t] = "pending" /\ status'[t] = "failed") =>
                      errors'[t] \in {BlockedError, "validation"}
          /\ dispatched'[t] <= 1
          /\ dispatched'[t] > dispatched[t] =>
                /\ dispatched[t] = 0
                /\ status[t] \in {"pending", "running"}
                /\ status'[t] = "running"
      ]_vars

\* execute has returned on a graph of three tasks: one was dispatched once and
\* failed with the backend's error, one was dispatched once and completed,
\* one was failed as blocked without being dispatched
C38_Witness ==
    /\ epc = "done"
    /\ Cardinality(tasks) = 3
    /\ \E a, b, c \in tasks :
          /\ status[a] = "failed" /\ errors[a] = "backend error"
          /\ dispatched[a] = 1
          /\ status[b] = "completed" /\ dispatched[b] = 1
          /\ status[c] = "failed" /\ errors[c] = BlockedError
          /\ dispatched[c] = 0
          /\ rounds >= 1

\* C39: once the backend has received the task, run it and answered with a
\* task response (completed, error or timeout, with the status code the
\* backend gives that status), the adapter sends nothing more in that
\* dispatch call: only a send that got no response is followed by another.
AnsweredEvents ==
    {"completed", "backend_error", "rejected", "worker_error"}

C39_NoSendAfterAnswer ==
    \A i \in 1..Len(attempt_events) :
        attempt_events[i] \in AnsweredEvents =>
            (i = Len(attempt_events) /\ dpc = "idle")

\* C40: every task type of the adapter's enumeration that the planner can
\* put in a graph, and ping, has a handler in the sandbox's dispatch table:
\* no task of such a type is answered with the error "Unknown task type".
C40_PlannerTypesHaveHandlers ==
    \A i \in 1..Len(sb_results) :
        sb_results[i].task_type \in PlannerTaskTypes \cup {"ping"} =>
            sb_results[i].error # UnknownTaskType

====
